---------------------------- MODULE Spec2Model ----------------------------
(***************************************************************************)
(* A model of libiff's parsing core: the byte source (std::istream seen    *)
(* through reader / subreader), the IFF-85 and RIFF chunk iterators, the   *)
(* chunk readers, the format-detecting factory, the handler registry and   *)
(* the parse() driver.                                                      *)
(*                                                                         *)
(* Scaling.  TLC's integers are 32 bits wide, so a byte is modelled as a   *)
(* digit in base ByteBase instead of base 256.  Every width keeps its      *)
(* number of bytes: a 32-bit field is 4 digits (values modulo ByteBase^4,  *)
(* the RF64 sentinel 0xFFFFFFFF is ByteBase^4 - 1), a 64-bit field is 8    *)
(* digits (values modulo ByteBase^8).  std::size_t is taken to be 64 bits  *)
(* wide.  Byte counts (8-byte header, 4-byte type tag, 24/28/12 of ds64)   *)
(* are the program's own.                                                   *)
(*                                                                         *)
(* Specifications.  Spec: a caller steps the iterator by hand and reads    *)
(* or skips in the reader of the current chunk.  SpecReader: the same,     *)
(* with the convenience methods of the reader.  SpecParse: parse() with a  *)
(* registry, a turn of its loop at a time.  SpecRegistry: registrations    *)
(* followed by emit.                                                       *)
(***************************************************************************)
EXTENDS Integers, Sequences, FiniteSets, TLC

ByteBase == 4

MaxPayload == 2

U32Mod == ByteBase ^ 4
U64Mod == ByteBase ^ 8
U32Max == U32Mod - 1
U64Max == U64Mod - 1

Min(a, b) == IF a < b THEN a ELSE b

\* With(v, LAMBDA x : e) is e with v under the local name x: the value of a
\* statement that the statements after it use.
With(v, K(_)) == K(v)

(***************************************************************************)
(* fourcc values: four bytes.  An absent std::optional<fourcc> is None.    *)
(***************************************************************************)
None == << >>
BLANK == <<2, 2, 2, 2>>
FORM == <<1, 0, 0, 1>>
LIST == <<1, 0, 1, 1>>
CAT  == <<1, 0, 2, 2>>
PROP == <<1, 0, 3, 1>>
RIFF == <<2, 0, 0, 1>>
RIFX == <<2, 0, 1, 1>>
RF64 == <<2, 0, 2, 1>>
BW64 == <<2, 0, 3, 1>>
DS64 == <<3, 0, 0, 1>>
DATA == <<3, 0, 1, 1>>
FMT  == <<3, 0, 2, 2>>
DAT1 == <<3, 1, 0, 1>>
TST1 == <<3, 2, 0, 1>>
WAVE == <<3, 2, 1, 1>>
JUNK == <<3, 3, 3, 1>>

VARIABLES
    data,        \* the bytes of the source
    file_like,   \* TRUE: seeking past the end succeeds (std::ifstream);
                 \* FALSE: it fails (std::istringstream)
    start_pos,   \* position of the stream when get_iterator is called
    m_options,   \* parse_options
    it,          \* the stream cursor and the iterator's members
    phase,       \* "new" | "iterating" | "failed" (get_iterator threw)
    last_op,     \* the operation the last step performed
    result,      \* what it returned or threw
    prev,        \* the descriptor that was current before the last next()
    handlers,    \* the handler_registry: its three tables
    registered,  \* the registrations made, in the order they were made; a
                 \* handler is known by its place in this list
    events,      \* the events handed to handler_registry::emit, in order
    invoked,     \* the handler calls emit made, in order
    visited      \* the headers parse() found current, in order

vars == <<data, file_like, start_pos, m_options, it, phase, last_op, result, prev,
          handlers, registered, events, invoked, visited>>

(***************************************************************************)
(* Byte order: swap_byte_order on a 4- or 8-byte scalar.                   *)
(***************************************************************************)
RECURSIVE FromBig(_)
FromBig(bs) ==
    IF bs = << >> THEN 0
    ELSE FromBig(SubSeq(bs, 1, Len(bs) - 1)) * ByteBase + bs[Len(bs)]

Reverse(bs) == [i \in 1..Len(bs) |-> bs[Len(bs) + 1 - i]]

Decode(bs, bo) == IF bo = "big" THEN FromBig(bs) ELSE FromBig(Reverse(bs))

(***************************************************************************)
(* reader over std::istream.  I.pos is the get position, I.fail the        *)
(* failbit/eofbit pair (istream::read sets both on a short read).          *)
(* I.exc names the exception in flight, I.got the last read's count,       *)
(* I.buf the bytes it delivered.                                           *)
(***************************************************************************)
Throw(I, e) == [I EXCEPT !.exc = e]

reader_read(I, n) ==
    IF I.fail
    THEN [I EXCEPT !.exc = "io_error", !.got = 0, !.buf = << >>]
    ELSE LET avail == IF Len(data) > I.pos THEN Len(data) - I.pos ELSE 0
             k == Min(n, avail)
         IN [I EXCEPT !.pos = I.pos + k,
                      !.fail = (k < n),
                      !.got = k,
                      !.buf = SubSeq(data, I.pos + 1, I.pos + k),
                      !.io = @ + 1]

\* reader_base::read<T> and reader_base::read_fourcc: a short read throws.
read_exact(I, n) ==
    With(reader_read(I, n), LAMBDA R :
        IF R.exc # "none" THEN R
        ELSE IF R.got # n THEN Throw(R, "io_error") ELSE R)

reader_seek(I, offset) ==
    IF (offset > Len(data) /\ ~file_like) \/ offset >= U64Mod \div 2
    THEN [I EXCEPT !.fail = TRUE, !.exc = "io_error", !.io = @ + 1]
    ELSE [I EXCEPT !.pos = offset, !.fail = FALSE, !.io = @ + 1,
                   !.backward = @ \/ offset < I.pos]

\* reader::size: the stream is put at its end and back where it was.
reader_stream_size(I) == [I EXCEPT !.backward = @ \/ I.pos < Len(data)]

(***************************************************************************)
(* chunk_iterator members.                                                 *)
(***************************************************************************)
NoReader ==
    [present |-> FALSE, m_size |-> 0, m_start_offset |-> 0, m_bytes_read |-> 0,
     sub_size |-> 0, sub_position |-> 0]

EmptyInfo ==
    [header |-> [id |-> BLANK, size |-> 0, file_offset |-> 0,
                 is_container |-> FALSE, type |-> None],
     reader |-> NoReader,
     current_form |-> None,
     current_container |-> None,
     depth |-> 0,
     total_size_with_padding |-> 0,
     in_list_with_props |-> FALSE,
     is_prop_chunk |-> FALSE]

EmptyRf64 ==
    [riff_size |-> 0, data_size |-> 0, sample_count |-> 0,
     override_table |-> << >>, override_index |-> << >>]

NewIterator(variant, pos, fail) ==
    [variant |-> variant,
     pos |-> pos, fail |-> fail,
     m_current |-> EmptyInfo,
     m_ended |-> TRUE,
     m_container_stack |-> << >>,
     m_byte_order |-> "little",
     m_is_rf64 |-> FALSE,
     m_rf64_state |-> EmptyRf64,
     warnings |-> << >>,
     headers_at |-> << >>,
     backward |-> FALSE,
     io |-> 0,
     exc |-> "none", ret |-> FALSE, got |-> 0, buf |-> << >>]

Top(stack) == stack[Len(stack)]
Pop(stack) == SubSeq(stack, 1, Len(stack) - 1)

RECURSIVE PopClosed(_, _)
PopClosed(stack, pos) ==
    IF stack # << >> /\ pos >= Top(stack).end_offset
    THEN PopClosed(Pop(stack), pos)
    ELSE stack

Warn(I, offset, category) ==
    IF m_options.on_warning
    THEN [I EXCEPT !.warnings = Append(@, [offset |-> offset, category |-> category])]
    ELSE I

Padded(size) == size + (size % 2)

\* if (!read_next_chunk()) m_ended = true; an exception passes through.
EndUnless(R) ==
    IF R.exc # "none" THEN R
    ELSE IF R.ret THEN R ELSE [R EXCEPT !.m_ended = TRUE]

(***************************************************************************)
(* IFF-85 iterator                                                         *)
(***************************************************************************)
\* The walk of update_container_context from the top of the stack: the type
\* of the innermost FORM frame, the id of the innermost LIST/CAT/PROP frame.
RECURSIVE Iff85FormType(_)
Iff85FormType(stack) ==
    IF stack = << >> THEN None
    ELSE IF Top(stack).id = FORM THEN Top(stack).type
    ELSE Iff85FormType(Pop(stack))

RECURSIVE Iff85ContainerId(_)
Iff85ContainerId(stack) ==
    IF stack = << >> THEN None
    ELSE IF Top(stack).id \in {LIST, CAT, PROP} THEN Top(stack).id
    ELSE Iff85ContainerId(Pop(stack))

\* A faulty variant of the recomputation below: the container identifier is
\* left as it was.
iff85_update_container_context_stale(I) ==
    [I EXCEPT !.m_current.current_form = Iff85FormType(I.m_container_stack)]

iff85_update_container_context(I) ==
    [I EXCEPT !.m_current.current_form = Iff85FormType(I.m_container_stack),
              !.m_current.current_container = Iff85ContainerId(I.m_container_stack)]

RECURSIVE iff85_read_next_chunk(_)

\* A faulty variant of the push below: a type tag is read for CAT as well.
iff85_push_container_tagged(I, header) ==
    With(read_exact(I, 4), LAMBDA T :
        IF T.exc # "none"
        THEN [T EXCEPT !.exc = "none", !.ret = FALSE]
        ELSE LET type_tag == T.buf
                 content_end == IF header.id = CAT
                                THEN (T.pos + header.size) % U64Mod
                                ELSE (T.pos + header.size + U64Mod - 4) % U64Mod
                 state == [id |-> header.id, type |-> type_tag,
                           end_offset |-> content_end,
                           depth |-> T.m_current.depth,
                           has_prop_chunks |-> FALSE]
                 P == [T EXCEPT !.m_current.header.type = type_tag,
                                !.m_container_stack = Append(@, state)]
             IN [iff85_update_container_context(P)
                    EXCEPT !.m_current.reader = NoReader, !.ret = TRUE])

iff85_push_container(I, header) ==
    With(IF header.id = CAT THEN I ELSE read_exact(I, 4), LAMBDA T :
        IF T.exc # "none"
        THEN [T EXCEPT !.exc = "none", !.ret = FALSE]
        ELSE LET type_tag == IF header.id = CAT THEN None ELSE T.buf
                 content_end == IF header.id = CAT
                                THEN (T.pos + header.size) % U64Mod
                                ELSE (T.pos + header.size + U64Mod - 4) % U64Mod
                 state == [id |-> header.id, type |-> type_tag,
                           end_offset |-> content_end,
                           depth |-> T.m_current.depth,
                           has_prop_chunks |-> FALSE]
                 P == [T EXCEPT !.m_current.header.type = type_tag,
                                !.m_container_stack = Append(@, state)]
             IN [iff85_update_container_context(P)
                    EXCEPT !.m_current.reader = NoReader, !.ret = TRUE])

\* A faulty variant of the depth limit below: lenient mode warns and enters
\* the container.
iff85_process_container_enters(I, header) ==
    IF I.m_current.depth >= m_options.max_depth
    THEN IF m_options.strict
         THEN Throw(I, "parse_error")
         ELSE iff85_push_container(Warn(I, header.file_offset, "depth_limit"), header)
    ELSE iff85_push_container(I, header)

iff85_process_container(I, header) ==
    IF I.m_current.depth >= m_options.max_depth
    THEN IF m_options.strict
         THEN Throw(I, "parse_error")
         ELSE With(reader_seek(Warn(I, header.file_offset, "depth_limit"),
                               (header.file_offset + 8 + header.size) % U64Mod),
                   LAMBDA S : IF S.exc # "none" THEN S ELSE iff85_read_next_chunk(S))
    ELSE iff85_push_container(I, header)

\* A faulty variant of the reader below: the pad byte counts as payload.
iff85_chunk_reader_with_pad(start, chunk_size) ==
    [present |-> TRUE, m_size |-> Padded(chunk_size),
     m_start_offset |-> start, m_bytes_read |-> 0,
     sub_size |-> Padded(chunk_size), sub_position |-> 0]

\* The reader of a data chunk: a subreader over the padded payload, wrapped so
\* that the caller sees chunk_size bytes.
iff85_chunk_reader(start, chunk_size) ==
    [present |-> TRUE, m_size |-> chunk_size,
     m_start_offset |-> start, m_bytes_read |-> 0,
     sub_size |-> Padded(chunk_size), sub_position |-> 0]

\* The chunk whose header has been read: the descriptor, then the container
\* or the reader.
iff85_make_chunk(C, hdr) ==
    With(iff85_update_container_context(
             [C EXCEPT !.m_current.header = hdr,
                       !.m_current.depth =
                           IF C.m_container_stack = << >> THEN 0
                           ELSE Top(C.m_container_stack).depth + 1]),
         LAMBDA D :
           IF hdr.is_container THEN iff85_process_container(D, hdr)
           ELSE [D EXCEPT !.m_current.reader = iff85_chunk_reader(D.pos, hdr.size),
                          !.m_current.total_size_with_padding = Padded(hdr.size),
                          !.ret = TRUE])

\* A faulty variant of the limit below: lenient mode warns and keeps the
\* declared size.
iff85_check_size_unclamped(B, start_pos_, chunk_id, size_32) ==
    LET over == size_32 > m_options.max_chunk_size
    IN IF over /\ m_options.strict THEN Throw(B, "parse_error")
       ELSE iff85_make_chunk(
                IF over THEN Warn(B, start_pos_, "size_limit") ELSE B,
                [id |-> chunk_id,
                 size |-> size_32,
                 file_offset |-> start_pos_,
                 is_container |-> chunk_id \in {FORM, LIST, CAT, PROP},
                 type |-> None])

\* The size check on a header read at start_pos_.
iff85_check_size(B, start_pos_, chunk_id, size_32) ==
    LET over == size_32 > m_options.max_chunk_size
    IN IF over /\ m_options.strict THEN Throw(B, "parse_error")
       ELSE iff85_make_chunk(
                IF over THEN Warn(B, start_pos_, "size_limit") ELSE B,
                [id |-> chunk_id,
                 size |-> IF over THEN m_options.max_chunk_size ELSE size_32,
                 file_offset |-> start_pos_,
                 is_container |-> chunk_id \in {FORM, LIST, CAT, PROP},
                 type |-> None])

iff85_read_header(I) ==
    With(read_exact([I EXCEPT !.headers_at = Append(@, I.pos)], 4), LAMBDA A :
        IF A.exc # "none" THEN A
        ELSE With(read_exact(A, 4), LAMBDA B :
                 IF B.exc # "none" THEN B
                 ELSE iff85_check_size(B, I.pos, A.buf, Decode(B.buf, "big"))))

\* The frames that end at or before the cursor are popped.
iff85_pop_closed(I) ==
    With(PopClosed(I.m_container_stack, I.pos), LAMBDA popped :
        IF popped = I.m_container_stack THEN I
        ELSE iff85_update_container_context([I EXCEPT !.m_container_stack = popped]))

iff85_read_next_chunk(I) ==
    IF I.m_container_stack # << >> /\ I.fail
    THEN Throw(I, "io_error")
    ELSE With(IF I.fail THEN Throw(I, "io_error")
              ELSE iff85_read_header(iff85_pop_closed(I)),
              LAMBDA R : IF R.exc = "io_error"
                         THEN [R EXCEPT !.exc = "none", !.ret = FALSE]
                         ELSE R)

\* A faulty variant of the seek below: the 8 bytes of the header are left out.
iff85_seek_past_data_headerless(I) ==
    IF I.m_current.reader.present
    THEN reader_seek([I EXCEPT !.m_current.reader = NoReader],
                     (I.m_current.header.file_offset
                      + I.m_current.total_size_with_padding) % U64Mod)
    ELSE I

\* The reader of the current data chunk is released and the stream put after
\* the chunk's data and padding.
iff85_seek_past_data(I) ==
    IF I.m_current.reader.present
    THEN reader_seek([I EXCEPT !.m_current.reader = NoReader],
                     (I.m_current.header.file_offset + 8
                      + I.m_current.total_size_with_padding) % U64Mod)
    ELSE I

\* A faulty variant of advance below: the m_ended guard is missing.
iff85_advance_unguarded(I) ==
    With(iff85_seek_past_data(I), LAMBDA S :
        IF S.exc # "none"
        THEN [S EXCEPT !.exc = "none", !.m_ended = TRUE]
        ELSE EndUnless(iff85_read_next_chunk(iff85_update_container_context(S))))

iff85_advance(I) ==
    IF I.m_ended THEN I
    ELSE With(iff85_seek_past_data(I), LAMBDA S :
             IF S.exc # "none"
             THEN [S EXCEPT !.exc = "none", !.m_ended = TRUE]
             ELSE EndUnless(iff85_read_next_chunk(iff85_update_container_context(S))))

iff85_chunk_iterator(pos, fail) ==
    EndUnless(iff85_read_next_chunk(
                  [NewIterator("iff85", pos, fail) EXCEPT !.m_ended = FALSE]))

(***************************************************************************)
(* RIFF iterator                                                           *)
(***************************************************************************)
RECURSIVE RiffOutermostFirst(_, _, _)
RiffOutermostFirst(stack, i, ctx) ==
    IF i > Len(stack) THEN ctx
    ELSE LET info == stack[i]
             f == IF info.id \in {RIFF, RIFX, RF64} /\ info.type # None
                  THEN info.type ELSE ctx.form
             c == IF info.id = LIST /\ ctx.container = None
                  THEN info.id ELSE ctx.container
         IN RiffOutermostFirst(stack, i + 1, [form |-> f, container |-> c])

riff_update_container_context(I) ==
    LET ctx == RiffOutermostFirst(I.m_container_stack, 1,
                                  [form |-> None, container |-> None])
    IN [I EXCEPT !.m_current.current_form = ctx.form,
                 !.m_current.current_container = ctx.container]

\* The entries of the ds64 table, read one by one until table_count is
\* reached or a read fails.
RECURSIVE ds64_read_table(_, _, _)
ds64_read_table(I, i, table_count) ==
    IF i >= table_count THEN I
    ELSE With(read_exact(I, 4), LAMBDA A :
         IF A.exc # "none" THEN A
         ELSE With(read_exact(A, 8), LAMBDA B :
         IF B.exc # "none" THEN B
         ELSE With(Decode(B.buf, "little"), LAMBDA chunk_size_64 :
              ds64_read_table(
                  [B EXCEPT
                     !.m_rf64_state.override_table =
                         Append(@, [id |-> A.buf, size |-> chunk_size_64]),
                     !.m_rf64_state.data_size =
                         IF A.buf = DATA /\ @ = 0 THEN chunk_size_64 ELSE @],
                  i + 1, table_count))))

riff_parse_ds64_chunk(I, chunk_size) ==
    IF chunk_size < 24 THEN Throw(I, "parse_error")
    ELSE \* the three sizes are assigned as their reads succeed
         With(read_exact(I, 8), LAMBDA A :
         IF A.exc # "none" THEN A
         ELSE With(read_exact([A EXCEPT !.m_rf64_state.riff_size =
                                            Decode(A.buf, "little")], 8), LAMBDA B :
         IF B.exc # "none" THEN B
         ELSE With(read_exact([B EXCEPT !.m_rf64_state.data_size =
                                            Decode(B.buf, "little")], 8), LAMBDA C :
         IF C.exc # "none" THEN C
         ELSE With([C EXCEPT !.m_rf64_state.sample_count =
                                 Decode(C.buf, "little")], LAMBDA F :
         IF chunk_size < 28 THEN F
         ELSE With(read_exact(F, 4), LAMBDA T :
         IF T.exc # "none" THEN T
         ELSE With(Decode(T.buf, "little"), LAMBDA table_count :
              IF chunk_size < (24 + 4 + ((table_count * 12) % U32Mod)) % U32Mod
              THEN Throw(T, "parse_error")
              ELSE ds64_read_table(T, 0, table_count)))))))

\* The entries of the override table for one identifier, in table order.
OverridesOf(table, id) == SelectSeq(table, LAMBDA e : e.id = id)
IndexOf(index, id) == Len(SelectSeq(index, LAMBDA x : x = id))

\* Returns the iterator (override_index may advance) with the size in .got.
riff_get_size_override(I, id, size_32) ==
    IF ~I.m_is_rf64 \/ size_32 # U32Max THEN [I EXCEPT !.got = size_32]
    ELSE IF id = RF64 \/ id = RIFF
    THEN [I EXCEPT !.got = I.m_rf64_state.riff_size]
    ELSE IF id = DATA /\ I.m_rf64_state.data_size > 0
    THEN [I EXCEPT !.got = I.m_rf64_state.data_size]
    ELSE LET sizes == OverridesOf(I.m_rf64_state.override_table, id)
             index == IndexOf(I.m_rf64_state.override_index, id)
         IN IF sizes # << >> /\ index < Len(sizes)
            THEN [I EXCEPT !.got = sizes[index + 1].size,
                           !.m_rf64_state.override_index = Append(@, id)]
            ELSE [I EXCEPT !.got = size_32]

RECURSIVE riff_read_next_chunk(_)

\* A faulty variant of the push below: the frame ends where the header on the
\* source says, not where the size limit puts it.
riff_push_container_declared(I, header) ==
    With(read_exact(I, 4), LAMBDA T :
       LET state == [id |-> header.id, type |-> T.buf,
                     end_offset |-> (header.file_offset + 8
                                    + Decode(SubSeq(data, header.file_offset + 5,
                                                    header.file_offset + 8),
                                             I.m_byte_order)) % U64Mod,
                     depth |-> T.m_current.depth,
                     has_prop_chunks |-> FALSE]
       IN
       IF T.exc # "none" THEN Throw(T, "parse_error")
       ELSE [T EXCEPT
               !.m_current.header.type = T.buf,
               !.m_current.total_size_with_padding = Padded(header.size) % U64Mod,
               !.m_container_stack = Append(@, state),
               !.m_current.current_container =
                   IF header.id = LIST THEN header.id ELSE @,
               !.m_current.current_form =
                   IF header.id \in {RIFF, RIFX, RF64} THEN T.buf ELSE @,
               !.m_current.reader = NoReader,
               !.ret = TRUE])

riff_push_container(I, header) ==
    With(read_exact(I, 4), LAMBDA T :
       LET state == [id |-> header.id, type |-> T.buf,
                     end_offset |-> (header.file_offset + 8 + header.size) % U64Mod,
                     depth |-> T.m_current.depth,
                     has_prop_chunks |-> FALSE]
       IN
       IF T.exc # "none" THEN Throw(T, "parse_error")
       ELSE [T EXCEPT
               !.m_current.header.type = T.buf,
               !.m_current.total_size_with_padding = Padded(header.size) % U64Mod,
               !.m_container_stack = Append(@, state),
               !.m_current.current_container =
                   IF header.id = LIST THEN header.id ELSE @,
               !.m_current.current_form =
                   IF header.id \in {RIFF, RIFX, RF64} THEN T.buf ELSE @,
               !.m_current.reader = NoReader,
               !.ret = TRUE])

\* A faulty variant of the depth limit below: one level more is let in.
riff_process_container_one_deeper(I, header) ==
    IF I.m_current.depth > m_options.max_depth
    THEN IF m_options.strict
         THEN Throw(I, "parse_error")
         ELSE With(reader_seek(Warn(I, header.file_offset, "depth_limit"),
                               (header.file_offset + 8 + header.size) % U64Mod),
                   LAMBDA S : IF S.exc # "none" THEN S ELSE riff_read_next_chunk(S))
    ELSE riff_push_container(I, header)

riff_process_container(I, header) ==
    IF I.m_current.depth >= m_options.max_depth
    THEN IF m_options.strict
         THEN Throw(I, "parse_error")
         ELSE With(reader_seek(Warn(I, header.file_offset, "depth_limit"),
                               (header.file_offset + 8 + header.size) % U64Mod),
                   LAMBDA S : IF S.exc # "none" THEN S ELSE riff_read_next_chunk(S))
    ELSE riff_push_container(I, header)

\* The hidden ds64 chunk of an RF64 file: parse it, fix the root frame's end,
\* step over the rest of the chunk and go on with the next header.
\* The root frame of an RF64 file ends where ds64 says, or where the file ends.
riff_fix_rf64_end(P) ==
    IF P.m_container_stack # << >> /\ Top(P.m_container_stack).id = RF64
    THEN [reader_stream_size(P)
             EXCEPT !.m_container_stack[Len(P.m_container_stack)].end_offset =
                       Min((8 + P.m_rf64_state.riff_size) % U64Mod, Len(data))]
    ELSE P

\* The rest of the ds64 chunk, of which bytes_read have been read.
riff_skip_rest(Q, chunk_size_32, bytes_read) ==
    LET remaining == (chunk_size_32 + U64Mod - bytes_read) % U64Mod
    IN IF remaining > 0 THEN reader_seek(Q, (Q.pos + remaining) % U64Mod) ELSE Q

riff_hide_ds64(I, chunk_size_32) ==
    With(riff_parse_ds64_chunk(I, chunk_size_32), LAMBDA P :
    IF P.exc # "none" THEN P
    ELSE With(riff_skip_rest(riff_fix_rf64_end(P), chunk_size_32, P.pos - I.pos),
              LAMBDA S1 :
    IF S1.exc # "none" THEN S1
    ELSE With(IF chunk_size_32 % 2 = 1
              THEN reader_seek(S1, (S1.pos + 1) % U64Mod) ELSE S1, LAMBDA S2 :
    IF S2.exc # "none" THEN S2
    ELSE riff_read_next_chunk(S2))))

\* The reader of a data chunk: it works on the iterator's stream, from the
\* first payload byte, for chunk_size bytes.
riff_chunk_reader(start, chunk_size) ==
    [present |-> TRUE, m_size |-> chunk_size,
     m_start_offset |-> start, m_bytes_read |-> 0,
     sub_size |-> 0, sub_position |-> 0]

\* A faulty variant of the chunk below: a chunk gets the depth of the frame
\* it lies in.
riff_make_chunk_level(C, hdr) ==
    With(riff_update_container_context(
             [C EXCEPT !.m_current.header = hdr,
                       !.m_current.depth =
                           IF C.m_container_stack = << >> THEN 0
                           ELSE Top(C.m_container_stack).depth]),
         LAMBDA D :
           IF hdr.is_container THEN riff_process_container(D, hdr)
           ELSE [D EXCEPT !.m_current.total_size_with_padding =
                              Padded(hdr.size) % U64Mod,
                          !.m_current.reader = riff_chunk_reader(D.pos, hdr.size),
                          !.ret = TRUE])

\* The chunk whose header has been read: the descriptor, then the container
\* or the reader.
riff_make_chunk(C, hdr) ==
    With(riff_update_container_context(
             [C EXCEPT !.m_current.header = hdr,
                       !.m_current.depth =
                           IF C.m_container_stack = << >> THEN 0
                           ELSE Top(C.m_container_stack).depth + 1]),
         LAMBDA D :
           IF hdr.is_container THEN riff_process_container(D, hdr)
           ELSE [D EXCEPT !.m_current.total_size_with_padding =
                              Padded(hdr.size) % U64Mod,
                          !.m_current.reader = riff_chunk_reader(D.pos, hdr.size),
                          !.ret = TRUE])

\* A faulty variant of the limit below: strict mode clamps and warns too.
riff_check_size_clamps(O, start_pos_, chunk_id) ==
    LET over == O.got > m_options.max_chunk_size
    IN riff_make_chunk(
           IF over THEN Warn(O, start_pos_, "size_limit") ELSE O,
           [id |-> chunk_id,
            size |-> IF over THEN m_options.max_chunk_size ELSE O.got,
            file_offset |-> start_pos_,
            is_container |-> chunk_id \in {RIFF, RIFX, RF64, LIST},
            type |-> None])

\* The size check on a header read at start_pos_; O.got is the size after the
\* RF64 overrides.
riff_check_size(O, start_pos_, chunk_id) ==
    LET over == O.got > m_options.max_chunk_size
    IN IF over /\ m_options.strict THEN Throw(O, "parse_error")
       ELSE riff_make_chunk(
                IF over THEN Warn(O, start_pos_, "size_limit") ELSE O,
                [id |-> chunk_id,
                 size |-> IF over THEN m_options.max_chunk_size ELSE O.got,
                 file_offset |-> start_pos_,
                 is_container |-> chunk_id \in {RIFF, RIFX, RF64, LIST},
                 type |-> None])

\* A faulty variant of the handling below: ds64 is exposed like any chunk.
riff_on_header_ds64_exposed(B, start_pos_, chunk_id, chunk_size_32) ==
    riff_check_size(riff_get_size_override(B, chunk_id, chunk_size_32),
                    start_pos_, chunk_id)

\* A header read at start_pos_: ds64 of an RF64 file is hidden, any other
\* chunk gets its size and is exposed.
riff_on_header(B, start_pos_, chunk_id, chunk_size_32) ==
    IF B.m_is_rf64 /\ chunk_id = DS64 THEN riff_hide_ds64(B, chunk_size_32)
    ELSE riff_check_size(
             IF B.m_is_rf64 /\ chunk_id = RF64 /\ chunk_size_32 = U32Max
             THEN [reader_stream_size(B)
                     EXCEPT !.got = (Len(data) + U64Mod - start_pos_ - 8) % U64Mod]
             ELSE riff_get_size_override(B, chunk_id, chunk_size_32),
             start_pos_, chunk_id)

riff_read_header(I) ==
    With(read_exact([I EXCEPT !.headers_at = Append(@, I.pos)], 4), LAMBDA A :
        IF A.exc # "none" THEN A
        ELSE With(read_exact(A, 4), LAMBDA B :
                 IF B.exc # "none" THEN B
                 ELSE riff_on_header(B, I.pos, A.buf,
                                     Decode(B.buf, B.m_byte_order))))

\* catch (...) of the handler below: pop one frame and try again.
riff_pop_and_retry(I) ==
    IF I.m_container_stack # << >>
    THEN riff_read_next_chunk(riff_update_container_context(
             [I EXCEPT !.exc = "none", !.m_container_stack = Pop(@)]))
    ELSE [I EXCEPT !.exc = "none", !.ret = FALSE]

\* catch (const std::exception&) of read_next_chunk.
riff_on_read_failure(I) ==
    IF I.m_container_stack = << >>
    THEN [I EXCEPT !.exc = "none", !.ret = FALSE]
    ELSE IF I.fail THEN riff_pop_and_retry(I)
    ELSE IF I.pos >= Top(I.m_container_stack).end_offset
    THEN With(riff_read_next_chunk(riff_update_container_context(
                  [I EXCEPT !.exc = "none", !.m_container_stack = Pop(@)])),
              LAMBDA R : IF R.exc # "none" THEN riff_pop_and_retry(R) ELSE R)
    ELSE riff_pop_and_retry(I)

\* The frames that end at or before the cursor are popped.
riff_pop_closed(I) ==
    With(PopClosed(I.m_container_stack, I.pos), LAMBDA popped :
        IF popped = I.m_container_stack THEN I
        ELSE riff_update_container_context([I EXCEPT !.m_container_stack = popped]))

riff_read_next_chunk(I) ==
    IF I.m_container_stack # << >> /\ I.fail
    THEN Throw(I, "io_error")
    ELSE With(IF I.fail THEN Throw(I, "io_error")
              ELSE riff_read_header(riff_pop_closed(I)),
              LAMBDA R : IF R.exc = "io_error" THEN riff_on_read_failure(R) ELSE R)

\* The reader of the current data chunk is released and the stream put after
\* the chunk's data and padding.
riff_seek_past_data(I) ==
    IF I.m_current.reader.present
    THEN reader_seek([I EXCEPT !.m_current.reader = NoReader],
                     (I.m_current.header.file_offset + 8
                      + I.m_current.total_size_with_padding) % U64Mod)
    ELSE I

riff_advance(I) ==
    IF I.m_ended THEN I
    ELSE With(riff_seek_past_data(I), LAMBDA S :
             IF S.exc # "none"
             THEN [S EXCEPT !.exc = "none", !.m_ended = TRUE]
             ELSE EndUnless(riff_read_next_chunk(riff_update_container_context(S))))

\* The constructor reads the magic again and seeks to offset 0.
riff_chunk_iterator(pos, fail) ==
    With(reader_read(NewIterator("riff", pos, fail), 4), LAMBDA M :
    With([M EXCEPT !.pos = 0, !.fail = FALSE, !.m_ended = FALSE,
                   !.m_byte_order = IF M.buf = RIFX THEN "big" ELSE "little",
                   !.m_is_rf64 = (M.buf = RF64)], LAMBDA Z :
        IF M.buf \notin {RIFF, RIFX, RF64} THEN Throw(Z, "parse_error")
        ELSE EndUnless(riff_read_next_chunk(Z))))

(***************************************************************************)
(* chunk_iterator::get_iterator                                            *)
(***************************************************************************)
get_iterator(pos) ==
    With(reader_read(NewIterator("none", pos, FALSE), 4), LAMBDA M :
        IF M.fail THEN Throw(M, "parse_error")
        ELSE IF M.buf \in {FORM, LIST, CAT} THEN iff85_chunk_iterator(pos, FALSE)
        ELSE IF M.buf \in {RIFF, RF64, RIFX} THEN riff_chunk_iterator(pos, FALSE)
        ELSE Throw([M EXCEPT !.pos = pos], "parse_error"))

advance(I) ==
    IF I.variant = "iff85" THEN iff85_advance(I) ELSE riff_advance(I)

(***************************************************************************)
(* Chunk readers (the reader vended with a data chunk).  The count or flag *)
(* returned is left in .got / .ret.                                        *)
(***************************************************************************)
\* subreader::read, called with 0 < size
subreader_read(I, size) ==
    LET rd == I.m_current.reader
        available == rd.sub_size - rd.sub_position
    IN IF available = 0 THEN [I EXCEPT !.got = 0]
       ELSE With(reader_seek(I, rd.m_start_offset + rd.sub_position), LAMBDA S :
            IF S.exc # "none" THEN S
            ELSE With(reader_read(S, Min(size, available)), LAMBDA R :
            IF R.exc # "none" THEN R
            ELSE [R EXCEPT !.m_current.reader.sub_position = @ + R.got]))

\* A faulty variant of read below: the request is not limited to what is
\* left of the chunk.
iff85_chunk_reader_read_unlimited(I, size) ==
    LET rd == I.m_current.reader
        available == rd.m_size - rd.m_bytes_read
    IN IF size = 0 \/ available = 0 THEN [I EXCEPT !.got = 0]
       ELSE With(subreader_read(I, size), LAMBDA R :
            IF R.exc # "none" THEN [R EXCEPT !.exc = "none", !.got = 0]
            ELSE [R EXCEPT !.m_current.reader.m_bytes_read = @ + R.got])

iff85_chunk_reader_read(I, size) ==
    LET rd == I.m_current.reader
        available == rd.m_size - rd.m_bytes_read
    IN IF size = 0 \/ available = 0 THEN [I EXCEPT !.got = 0]
       ELSE With(subreader_read(I, Min(size, available)), LAMBDA R :
            IF R.exc # "none" THEN [R EXCEPT !.exc = "none", !.got = 0]
            ELSE [R EXCEPT !.m_current.reader.m_bytes_read = @ + R.got])

\* A faulty variant of skip below: the request is not checked against what
\* is left of the chunk.
iff85_chunk_reader_skip_unchecked(I, size) ==
    LET rd == I.m_current.reader
    IN IF rd.sub_position + size > rd.sub_size THEN [I EXCEPT !.ret = FALSE]
       ELSE [I EXCEPT !.m_current.reader.sub_position = @ + size,
                      !.m_current.reader.m_bytes_read = @ + size,
                      !.ret = TRUE]

iff85_chunk_reader_skip(I, size) ==
    LET rd == I.m_current.reader
        available == rd.m_size - rd.m_bytes_read
    IN IF size > available THEN [I EXCEPT !.ret = FALSE]
       ELSE IF rd.sub_position + size > rd.sub_size THEN [I EXCEPT !.ret = FALSE]
       ELSE [I EXCEPT !.m_current.reader.sub_position = @ + size,
                      !.m_current.reader.m_bytes_read = @ + size,
                      !.ret = TRUE]

\* A faulty variant of read below: a failure of the stream is swallowed and
\* 0 is returned.
riff_chunk_reader_read_swallows(I, size) ==
    LET rd == I.m_current.reader
        to_read == Min(size, rd.m_size - rd.m_bytes_read)
    IN IF to_read = 0 THEN [I EXCEPT !.got = 0]
       ELSE With(reader_seek(I, (rd.m_start_offset + rd.m_bytes_read) % U64Mod),
                 LAMBDA S :
            With(IF S.exc # "none" THEN S ELSE reader_read(S, to_read), LAMBDA R :
            IF R.exc # "none" THEN [R EXCEPT !.exc = "none", !.got = 0]
            ELSE [R EXCEPT !.m_current.reader.m_bytes_read = @ + R.got]))

riff_chunk_reader_read(I, size) ==
    LET rd == I.m_current.reader
        to_read == Min(size, rd.m_size - rd.m_bytes_read)
    IN IF to_read = 0 THEN [I EXCEPT !.got = 0]
       ELSE With(reader_seek(I, (rd.m_start_offset + rd.m_bytes_read) % U64Mod),
                 LAMBDA S :
            With(IF S.exc # "none" THEN S ELSE reader_read(S, to_read), LAMBDA R :
            IF R.exc # "none" THEN [R EXCEPT !.got = 0]
            ELSE [R EXCEPT !.m_current.reader.m_bytes_read = @ + R.got]))

\* A faulty variant of skip below: the last byte of the chunk cannot be
\* skipped.
riff_chunk_reader_skip_short(I, size) ==
    LET rd == I.m_current.reader
    IN IF size > 0 /\ size >= rd.m_size - rd.m_bytes_read THEN [I EXCEPT !.ret = FALSE]
       ELSE [I EXCEPT !.m_current.reader.m_bytes_read = @ + size, !.ret = TRUE]

riff_chunk_reader_skip(I, size) ==
    LET rd == I.m_current.reader
    IN IF size > rd.m_size - rd.m_bytes_read THEN [I EXCEPT !.ret = FALSE]
       ELSE [I EXCEPT !.m_current.reader.m_bytes_read = @ + size, !.ret = TRUE]

chunk_reader_read(I, size) ==
    IF I.variant = "iff85" THEN iff85_chunk_reader_read(I, size)
    ELSE riff_chunk_reader_read(I, size)

chunk_reader_skip(I, size) ==
    IF I.variant = "iff85" THEN iff85_chunk_reader_skip(I, size)
    ELSE riff_chunk_reader_skip(I, size)

reader_remaining(I) ==
    (I.m_current.reader.m_size - I.m_current.reader.m_bytes_read) % U64Mod
reader_offset(I) == I.m_current.reader.m_bytes_read
reader_size(I) == I.m_current.reader.m_size

(***************************************************************************)
(* The convenience methods of chunk_reader.  Each one allocates its result *)
(* first: a buffer of less than 2^32 bytes is there, one of 2^63 bytes or  *)
(* more is refused (std::length_error), and in between it depends on the   *)
(* machine (std::bad_alloc).  The value returned is left in .buf, with     *)
(* .ret telling whether the optional holds one.                            *)
(***************************************************************************)
AllocOutcomes(n) ==
    IF n < U32Mod THEN {TRUE}
    ELSE IF n >= U64Mod \div 2 THEN {FALSE}
    ELSE BOOLEAN

\* std::string::find('\0') and resize: the bytes before the first zero byte.
RECURSIVE TrimAtNul(_)
TrimAtNul(bs) ==
    IF bs = << >> \/ Head(bs) = 0 THEN << >>
    ELSE <<Head(bs)>> \o TrimAtNul(Tail(bs))

read_string(I, size, allocated) ==
    IF size = 0 THEN [I EXCEPT !.ret = FALSE]
    ELSE IF ~allocated THEN Throw(I, "bad_alloc")
    ELSE With(chunk_reader_read(I, size), LAMBDA R :
         IF R.exc # "none" THEN R
         ELSE IF R.got # size THEN [R EXCEPT !.ret = FALSE, !.buf = << >>]
         ELSE [R EXCEPT !.ret = TRUE, !.buf = TrimAtNul(R.buf)])

read_fourcc(I) ==
    With(chunk_reader_read(I, 4), LAMBDA R :
        IF R.exc # "none" THEN R
        ELSE IF R.got # 4 THEN [R EXCEPT !.ret = FALSE, !.buf = << >>]
        ELSE [R EXCEPT !.ret = TRUE])

\* read_bytes(n); read_all() is read_bytes(remaining()).
read_bytes(I, n, allocated) ==
    LET to_read == Min(n, reader_remaining(I))
    IN IF ~allocated THEN Throw(I, "bad_alloc")
       ELSE IF to_read > 0 THEN chunk_reader_read(I, to_read)
       ELSE [I EXCEPT !.got = 0]

read_all(I, allocated) == read_bytes(I, reader_remaining(I), allocated)

(***************************************************************************)
(* handler_registry.  A table is the sequence in which the multimap yields *)
(* its elements; elements with equal keys are adjacent in it.              *)
(***************************************************************************)
EmptyRegistry ==
    [form_handlers_ |-> << >>, container_handlers_ |-> << >>,
     global_handlers_ |-> << >>]

\* std::unordered_multimap::emplace.  Where the element goes among the ones
\* with an equal key is the standard library's choice: before the first of
\* them (at_front) or after the last.
emplace(table, key, handler, at_front) ==
    LET same == {i \in 1..Len(table) : table[i].key = key}
        entry == [key |-> key, handler |-> handler]
    IN IF same = {} THEN Append(table, entry)
       ELSE With(IF at_front
                 THEN (CHOOSE i \in same : \A j \in same : i <= j) - 1
                 ELSE CHOOSE i \in same : \A j \in same : i >= j,
                 LAMBDA p : SubSeq(table, 1, p) \o <<entry>>
                            \o SubSeq(table, p + 1, Len(table)))

\* The handlers of the elements with the given key, in table order.
equal_range(table, key) ==
    With(SelectSeq(table, LAMBDA e : e.key = key),
         LAMBDA range : [i \in 1..Len(range) |-> range[i].handler])

on_chunk_in_form(reg, form_type, chunk_id, handler, at_front) ==
    [reg EXCEPT !.form_handlers_ =
        emplace(@, [scope |-> form_type, id |-> chunk_id], handler, at_front)]

on_chunk_in_container(reg, container_type, chunk_id, handler, at_front) ==
    [reg EXCEPT !.container_handlers_ =
        emplace(@, [scope |-> container_type, id |-> chunk_id], handler, at_front)]

on_chunk(reg, chunk_id, handler, at_front) ==
    [reg EXCEPT !.global_handlers_ = emplace(@, chunk_id, handler, at_front)]

\* A faulty variant of emit below: a match in a more specific table hides
\* the less specific ones.
emit_most_specific(reg, event) ==
    LET in_form == IF event.current_form # None
                   THEN equal_range(reg.form_handlers_,
                                    [scope |-> event.current_form,
                                     id |-> event.header.id])
                   ELSE << >>
        in_container == IF event.current_container # None
                        THEN equal_range(reg.container_handlers_,
                                         [scope |-> event.current_container,
                                          id |-> event.header.id])
                        ELSE << >>
    IN IF in_form # << >> THEN in_form
       ELSE IF in_container # << >> THEN in_container
       ELSE equal_range(reg.global_handlers_, event.header.id)

\* handler_registry::emit: the handlers it calls, in the order of the calls.
emit(reg, event) ==
    (IF event.current_form # None
     THEN equal_range(reg.form_handlers_,
                      [scope |-> event.current_form, id |-> event.header.id])
     ELSE << >>)
    \o (IF event.current_container # None
        THEN equal_range(reg.container_handlers_,
                         [scope |-> event.current_container,
                          id |-> event.header.id])
        ELSE << >>)
    \o equal_range(reg.global_handlers_, event.header.id)

\* The calls of one emit, as they are logged: the handler and the number of
\* the event among the events emitted.
Calls(reg, event, n) ==
    With(emit(reg, event),
         LAMBDA called : [i \in 1..Len(called) |-> [handler |-> called[i], emit |-> n]])

(***************************************************************************)
(* parse()                                                                 *)
(***************************************************************************)
chunk_event(type, chunk, with_reader) ==
    [type |-> type, header |-> chunk.header, reader |-> with_reader,
     current_form |-> chunk.current_form,
     current_container |-> chunk.current_container]

\* The events of one turn of the loop: none for a container, begin and end
\* for a data chunk.
parse_events(chunk) ==
    IF chunk.header.is_container THEN << >>
    ELSE <<chunk_event("begin", chunk, chunk.reader.present),
           chunk_event("end", chunk, FALSE)>>

(***************************************************************************)
(* Sources.  The bytes are built the way the unit tests build them: a      *)
(* header, a payload, a pad byte after an odd payload.                     *)
(***************************************************************************)
RECURSIVE ToBig(_, _)
ToBig(n, k) == IF k = 0 THEN << >> ELSE ToBig(n \div ByteBase, k - 1) \o <<n % ByteBase>>

Encode(n, k, bo) == IF bo = "big" THEN ToBig(n, k) ELSE Reverse(ToBig(n, k))

Bytes(n, b) == [i \in 1..n |-> b]

HalfChunk == U32Mod \div 2

\* A data chunk whose payload has `have' bytes and whose header says `size'.
Chunk(id, size, have, bo) ==
    id \o Encode(size, 4, bo) \o Bytes(have, 3) \o Bytes(have % 2, 0)

Leaf(id, size, bo) == Chunk(id, size, size, bo)

\* A container whose header declares the size of its content plus delta.
Group(id, type, body, delta, bo) ==
    id \o Encode(Len(type) + Len(body) + delta, 4, bo) \o type \o body

Pairs(S) == {a \o b : a \in S, b \in S}

Prefixes(f) == {SubSeq(f, 1, n) : n \in 0..Len(f)}

\* A container's body: nothing, a child, or two; a child is a data chunk
\* or a small container.
Bodies(children) == {<< >>} \cup children \cup Pairs(children)

Iff85Children ==
    {Leaf(DAT1, n, "big") : n \in 0..MaxPayload}
    \cup {Group(FORM, TST1, b, 0, "big") : b \in {<< >>, Leaf(DAT1, 1, "big")}}
    \cup {Group(id, TST1, Leaf(DAT1, 1, "big"), 0, "big") : id \in {LIST, PROP}}
    \cup {Group(CAT, << >>, Leaf(DAT1, 1, "big"), 0, "big")}

Iff85WellFormed ==
    {Group(id, TST1, b, 0, "big") : id \in {FORM, LIST}, b \in Bodies(Iff85Children)}
    \cup {Group(CAT, << >>, b, 0, "big") : b \in Bodies(Iff85Children)}

\* A LIST whose first child is a PROP, as IFF-85 has it.
Iff85WithProp ==
    {Group(LIST, TST1,
           Group(PROP, TST1, Leaf(DAT1, n, "big"), 0, "big")
             \o Group(FORM, TST1, Leaf(DAT1, 1, "big"), 0, "big"),
           0, "big") : n \in 0..1}

RiffChildren(bo) ==
    {Leaf(DAT1, n, bo) : n \in 0..MaxPayload}
    \cup {Group(LIST, TST1, b, 0, bo) : b \in {<< >>, Leaf(DAT1, 1, bo)}}
    \cup {Group(RIFF, TST1, Leaf(DAT1, 1, bo), 0, bo)}

RiffWellFormed ==
    {Group(RIFF, WAVE, b, 0, "little") : b \in Bodies(RiffChildren("little"))}
    \cup {Group(RIFX, WAVE, b, 0, "big") : b \in Bodies(RiffChildren("big"))}

\* RF64: 32-bit size fields hold the sentinel and the ds64 chunk holds the
\* 64-bit sizes (riff, data, sample count, then a table of id/size entries).
RECURSIVE Ds64Table(_)
Ds64Table(t) ==
    IF t = << >> THEN << >>
    ELSE Head(t).id \o Encode(Head(t).size, 8, "little") \o Ds64Table(Tail(t))

Ds64(size, riff, data_size, count, table) ==
    DS64 \o Encode(size, 4, "little") \o Encode(riff, 8, "little")
    \o Encode(data_size, 8, "little") \o Encode(0, 8, "little")
    \o Encode(count, 4, "little") \o Ds64Table(table)

Rf64(root, ds64, rest) == root \o Encode(U32Max, 4, "little") \o WAVE \o ds64 \o rest

\* An RF64 file whose ds64 chunk comes after the chunks of pre, declares
\* `size' bytes (zero-filled after the table) and gives the root its true size.
Rf64With(pre, size, data_size, count, table, rest) ==
    Rf64(RF64,
         pre \o Ds64(size, 4 + Len(pre) + 8 + Padded(size) + Len(rest),
                     data_size, count, table)
             \o Bytes(Padded(size) - 28 - 12 * Len(table), 0),
         rest)

\* A table count whose 32-bit product with 12 is less than 12:
\* 0x15555556 for 32-bit fields of 8-bit bytes.
WrapCount == (U32Mod + ((12 - (U32Mod % 12)) % 12)) \div 12

\* ds64 first or after another chunk, of even and odd sizes, and once more
\* inside a LIST; tables with several entries for one identifier.
Rf64Tables ==
    {Rf64With(pre, size, 1, 0, << >>,
              Leaf(TST1, 1, "little") \o Chunk(DATA, U32Max, 1, "little")) :
        pre \in {<< >>, Leaf(FMT, 1, "little")}, size \in {28, 29, 30}}
    \cup {Rf64With(<< >>, 28, 1, 0, << >>,
                   Group(LIST, TST1,
                         Ds64(28, 60, 1, 0, << >>) \o Leaf(DAT1, 1, "little"),
                         0, "little")
                   \o Chunk(DATA, U32Max, 1, "little"))}
    \cup {Rf64With(<< >>, 64, d, 3,
                   <<[id |-> FMT, size |-> 2], [id |-> x, size |-> 1],
                     [id |-> FMT, size |-> 0]>>,
                   Chunk(FMT, U32Max, 2, "little") \o Leaf(FMT, 1, "little")
                   \o Chunk(x, U32Max, 1, "little") \o Chunk(FMT, U32Max, 0, "little")
                   \o Chunk(FMT, U32Max, 0, "little")) :
            x \in {TST1, DATA}, d \in {0, 2}}
    \cup {Rf64With(<< >>, 40, 1, 1, <<[id |-> RIFF, size |-> 14]>>,
                   RIFF \o Encode(U32Max, 4, "little") \o TST1
                   \o Leaf(DAT1, 1, "little"))}
    \cup {Rf64With(<< >>, 28 + ((12 * WrapCount) % U32Mod), 1, WrapCount, << >>,
                   Chunk(DATA, U32Max, 1, "little") \o Leaf(TST1, 1, "little")
                   \o Leaf(TST1, 1, "little"))}
    \cup {Rf64With(<< >>, 52, 0, 2,
                   <<[id |-> DATA, size |-> 2], [id |-> DATA, size |-> 1]>>,
                   Chunk(DATA, U32Max, 2, "little") \o Chunk(DATA, U32Max, 1, "little")
                   \o Chunk(DATA, U32Max, 0, "little"))}

Rf64Files ==
    Rf64Tables \cup
    {Rf64(root, Ds64(28, 60, d, 0, << >>),
          Chunk(DATA, U32Max, Min(d, MaxPayload), "little") \o Leaf(TST1, 1, "little")) :
        root \in {RF64, RIFF},
        d \in {0, 1, MaxPayload, U64Max - 9, U64Max - 7, U64Max - 1, U64Max}}
    \cup {Rf64(RF64, Ds64(40, 60, 1, 1, <<[id |-> DAT1, size |-> d]>>),
               Chunk(DAT1, U32Max, Min(d, MaxPayload), "little")
               \o Chunk(DATA, U32Max, 1, "little")) : d \in {0, MaxPayload, U64Max}}
    \cup {Rf64(RF64, Leaf(FMT, 1, "little") \o Ds64(28, 60, 1, 0, << >>),
               Chunk(DATA, U32Max, 1, "little")),
          Rf64(RF64, Ds64(8, 60, 1, 0, << >>), Chunk(DATA, U32Max, 1, "little")),
          Rf64(RF64, Ds64(28, 60, 1, 2, << >>), Chunk(DATA, U32Max, 1, "little")),
          Rf64(RF64, << >>, Chunk(DATA, U32Max, 1, "little"))}

\* Damaged sources: every truncation of a few files, containers and chunks
\* that declare the wrong size, and roots that are no container.
Iff85Base ==
    Group(FORM, TST1,
          Group(LIST, TST1, Leaf(DAT1, 1, "big"), 0, "big") \o Leaf(DAT1, MaxPayload, "big"),
          0, "big")

RiffBase ==
    Group(RIFF, WAVE,
          Group(LIST, TST1, Leaf(DAT1, 1, "little"), 0, "little")
          \o Leaf(DAT1, MaxPayload, "little"),
          0, "little")

Rf64Base ==
    Rf64(RF64, Ds64(28, 60, 1, 0, << >>), Chunk(DATA, U32Max, 1, "little"))

Truncated == Prefixes(Iff85Base) \cup Prefixes(RiffBase) \cup Prefixes(Rf64Base)

WrongSizes ==
    {Group(r.id, TST1,
           Group(r.inner, TST1, Leaf(DAT1, 1, r.bo), di, r.bo) \o Leaf(DAT1, 1, r.bo),
           do, r.bo) :
        r \in {[id |-> FORM, inner |-> FORM, bo |-> "big"],
                [id |-> RIFF, inner |-> LIST, bo |-> "little"]},
        di \in {-2, -1, 0, 1, 2, 4}, do \in {-2, -1, 0, 1, 2, 4}}
    \cup {Group(r.id, TST1, Chunk(DAT1, n, 1, r.bo) \o Leaf(TST1, 1, r.bo), 0, r.bo) :
            r \in {[id |-> FORM, bo |-> "big"], [id |-> RIFF, bo |-> "little"]},
            n \in {2, 3, 9, U32Max}}
    \cup {r.id \o Encode(n, 4, r.bo) \o TST1 \o Leaf(DAT1, 1, r.bo) :
            r \in {[id |-> FORM, bo |-> "big"], [id |-> RIFF, bo |-> "little"]},
            n \in {0, 2, U32Max}}
    \cup {r.id \o Encode(12, 4, r.bo) \o TST1
              \o Group(r.inner, TST1, Leaf(DAT1, 1, r.bo) \o Leaf(DAT1, 1, r.bo),
                       0, r.bo) :
            r \in {[id |-> FORM, inner |-> FORM, bo |-> "big"],
                    [id |-> RIFF, inner |-> LIST, bo |-> "little"]}}

OtherRoots ==
    {Group(id, WAVE, Leaf(DAT1, 1, bo), 0, bo) :
        id \in {BW64, PROP, DAT1, BLANK, JUNK}, bo \in {"big", "little"}}

\* A chunk that declares more than it has, and half the 32-bit range of
\* payload in front of the chunk that follows it.
LongChunks ==
    {Group(r.id, TST1, Chunk(DAT1, U32Max, HalfChunk, r.bo) \o Leaf(TST1, 1, r.bo),
           0, r.bo) :
        r \in {[id |-> FORM, bo |-> "big"], [id |-> RIFF, bo |-> "little"]}}

\* A well-formed root with a chunk behind it.
Trailing ==
    {Group(r.id, TST1, Leaf(DAT1, 1, r.bo), 0, r.bo) \o Leaf(TST1, 1, r.bo) :
        r \in {[id |-> FORM, bo |-> "big"], [id |-> RIFF, bo |-> "little"]}}

\* Three containers deep, each with a chunk behind the container it holds.
Nested ==
    {Group(r.id, TST1,
           Group(LIST, TST1,
                 Group(r.id, TST1, Leaf(DAT1, 1, r.bo), 0, r.bo)
                   \o Leaf(DAT1, 1, r.bo), 0, r.bo)
             \o Leaf(DAT1, 1, r.bo), 0, r.bo) :
        r \in {[id |-> FORM, bo |-> "big"], [id |-> RIFF, bo |-> "little"]}}

\* A well-formed file behind an empty chunk: the caller hands the stream over
\* positioned at the file, at offset EmbeddedAt.
EmbeddedAt == 8
Embedded ==
    {Leaf(JUNK, 0, r.bo) \o Group(r.id, TST1, Leaf(DAT1, 1, r.bo), 0, r.bo) :
        r \in {[id |-> FORM, bo |-> "big"], [id |-> RIFF, bo |-> "little"]}}

Damaged == Truncated \cup WrongSizes \cup OtherRoots \cup LongChunks \cup Trailing

Sources ==
    Iff85WellFormed \cup Iff85WithProp \cup RiffWellFormed \cup Rf64Files \cup Damaged
    \cup Embedded \cup Nested

DefaultMaxChunkSize == U32Mod
DefaultMaxDepth == 64
SmallChunk == 1
SmallDepth == 1

DefaultOptions ==
    [strict |-> TRUE, max_chunk_size |-> DefaultMaxChunkSize,
     allow_rf64 |-> TRUE, max_depth |-> DefaultMaxDepth, on_warning |-> FALSE]

\* The limits and the modes in their combinations, with and without an
\* on_warning callback; allow_rf64 cleared with the other options at their
\* defaults.
Options ==
    {o \in [strict : BOOLEAN,
            max_chunk_size : {SmallChunk, HalfChunk, DefaultMaxChunkSize, U64Max},
            allow_rf64 : {TRUE},
            max_depth : (0..SmallDepth) \cup {DefaultMaxDepth},
            on_warning : BOOLEAN] :
        /\ o.strict => (o.max_chunk_size = DefaultMaxChunkSize
                        \/ o.max_depth = DefaultMaxDepth)
        /\ o.max_chunk_size = HalfChunk => o.max_depth = DefaultMaxDepth}
    \cup {[DefaultOptions EXCEPT !.allow_rf64 = FALSE]}

\* What an operation leaves behind: the members, without the scratch fields.
Settle(R) ==
    [R EXCEPT !.exc = "none", !.got = 0, !.ret = FALSE, !.buf = << >>, !.io = 0]
Begin(I) == [I EXCEPT !.io = 0, !.headers_at = << >>, !.backward = FALSE]
ResultOf(R) == [exc |-> R.exc, got |-> R.got, ret |-> R.ret, io |-> R.io]
Before(I) ==
    [header |-> I.m_current.header, had_reader |-> I.m_current.reader.present,
     depth |-> I.m_current.depth, ended |-> I.m_ended,
     stack |-> I.m_container_stack,
     raised |-> last_op \in {"get_iterator", "next"} /\ result.exc # "none"]

NoResult == [exc |-> "none", got |-> 0, ret |-> FALSE, io |-> 0]

\* A source, options, and no iterator yet.
InitSource ==
    /\ data \in Sources
    /\ file_like \in (IF data \in Damaged \cup Rf64Files THEN BOOLEAN ELSE {FALSE})
    /\ start_pos = (IF data \in Embedded THEN EmbeddedAt ELSE 0)
    /\ m_options \in Options
    /\ it = NewIterator("none", start_pos, FALSE)
    /\ phase = "new"
    /\ last_op = "none"
    /\ result = NoResult
    /\ prev = Before(it)
    /\ events = << >>
    /\ invoked = << >>
    /\ visited = << >>

Init ==
    /\ InitSource
    /\ handlers = EmptyRegistry
    /\ registered = << >>

\* The caller's requests: a few small counts, and whatever is left of the
\* chunk; a caller that is MaxPayload + 1 bytes into a long chunk stops
\* reading it piecemeal.
Requests(I) == (0..(MaxPayload + 1)) \cup {reader_remaining(I)}
CanConsume(I) ==
    /\ I.m_current.reader.present
    /\ I.m_current.reader.m_bytes_read <= MaxPayload + 1

Given == UNCHANGED <<data, file_like, start_pos, m_options>>

\* Stepping the iterator by hand and using a reader involve no registry.
Fixed == Given /\ UNCHANGED <<handlers, registered, events, invoked, visited>>

GetIterator ==
    /\ phase = "new"
    /\ LET R == get_iterator(start_pos)
       IN /\ it' = Settle(R)
          /\ result' = ResultOf(R)
          /\ phase' = IF R.exc = "none" THEN "iterating" ELSE "failed"
    /\ last_op' = "get_iterator"
    /\ prev' = Before(it)
    /\ Fixed

Next_ ==
    /\ phase = "iterating"
    /\ LET R == advance(Begin(it))
       IN /\ it' = Settle(R)
          /\ result' = ResultOf(R)
    /\ last_op' = "next"
    /\ prev' = Before(it)
    /\ UNCHANGED phase
    /\ Fixed

Read ==
    /\ phase = "iterating"
    /\ CanConsume(it)
    /\ \E n \in Requests(it) :
         LET R == chunk_reader_read(Begin(it), n)
         IN /\ it' = Settle(R)
            /\ result' = ResultOf(R)
    /\ last_op' = "read"
    /\ UNCHANGED <<phase, prev>>
    /\ Fixed

Skip ==
    /\ phase = "iterating"
    /\ CanConsume(it)
    /\ \E n \in Requests(it) :
         LET R == chunk_reader_skip(Begin(it), n)
         IN /\ it' = Settle(R)
            /\ result' = ResultOf(R)
    /\ last_op' = "skip"
    /\ UNCHANGED <<phase, prev>>
    /\ Fixed

ReadString ==
    /\ phase = "iterating"
    /\ CanConsume(it)
    /\ \E n \in Requests(it) : \E allocated \in AllocOutcomes(n) :
         LET R == read_string(Begin(it), n, allocated)
         IN /\ it' = Settle(R)
            /\ result' = ResultOf(R)
    /\ last_op' = "read_string"
    /\ UNCHANGED <<phase, prev>>
    /\ Fixed

ReadFourcc ==
    /\ phase = "iterating"
    /\ CanConsume(it)
    /\ LET R == read_fourcc(Begin(it))
       IN /\ it' = Settle(R)
          /\ result' = ResultOf(R)
    /\ last_op' = "read_fourcc"
    /\ UNCHANGED <<phase, prev>>
    /\ Fixed

ReadBytes ==
    /\ phase = "iterating"
    /\ CanConsume(it)
    /\ \E n \in Requests(it) :
         \E allocated \in AllocOutcomes(Min(n, reader_remaining(it))) :
           LET R == read_bytes(Begin(it), n, allocated)
           IN /\ it' = Settle(R)
              /\ result' = ResultOf(R)
    /\ last_op' = "read_bytes"
    /\ UNCHANGED <<phase, prev>>
    /\ Fixed

ReadAll ==
    /\ phase = "iterating"
    /\ CanConsume(it)
    /\ \E allocated \in AllocOutcomes(reader_remaining(it)) :
         LET R == read_all(Begin(it), allocated)
         IN /\ it' = Settle(R)
            /\ result' = ResultOf(R)
    /\ last_op' = "read_all"
    /\ UNCHANGED <<phase, prev>>
    /\ Fixed

Next == GetIterator \/ Next_ \/ Read \/ Skip

Spec == Init /\ [][Next]_vars

(***************************************************************************)
(* parse(stream, handlers, options), a turn of its loop at a time.  The    *)
(* registry has a handler of each scope for DAT1 chunks; a handler that is *)
(* called with a reader may read from it, and keeps what the reader throws *)
(* to itself.                                                              *)
(***************************************************************************)
MaxEvents == 8

ParseRegistrations ==
    <<[table |-> "form", scope |-> TST1, id |-> DAT1],
      [table |-> "container", scope |-> LIST, id |-> DAT1],
      [table |-> "global", scope |-> None, id |-> DAT1]>>

InitParse ==
    /\ InitSource
    /\ registered = ParseRegistrations
    /\ handlers = on_chunk(
                      on_chunk_in_container(
                          on_chunk_in_form(EmptyRegistry, TST1, DAT1, 1, FALSE),
                          LIST, DAT1, 2, FALSE),
                      DAT1, 3, FALSE)

\* What the handlers of a begin event may ask of the reader.
HandlerReads(chunk) ==
    IF parse_events(chunk) # << >> /\ emit(handlers, parse_events(chunk)[1]) # << >>
    THEN Requests(it)
    ELSE {0}

Visit(R) ==
    IF R.exc = "none" /\ ~R.m_ended
    THEN Append(visited, R.m_current.header) ELSE visited

ParseOpen ==
    /\ phase = "new"
    /\ LET R == get_iterator(start_pos)
       IN /\ it' = Settle(R)
          /\ result' = ResultOf(R)
          /\ phase' = IF R.exc = "none" THEN "iterating" ELSE "failed"
          /\ visited' = Visit(R)
    /\ last_op' = "get_iterator"
    /\ prev' = Before(it)
    /\ Given
    /\ UNCHANGED <<handlers, registered, events, invoked>>

\* has_next(): the events of the current chunk go to emit, the handlers
\* run, next() is called.  An exception of next() ends parse().
ParseTurn ==
    /\ phase = "iterating"
    /\ ~it.m_ended
    /\ Len(events) < MaxEvents
    /\ \E n \in HandlerReads(it.m_current) :
         LET R == advance(Begin(Settle(chunk_reader_read(Begin(it), n))))
         IN /\ it' = Settle(R)
            /\ result' = ResultOf(R)
            /\ phase' = IF R.exc = "none" THEN "iterating" ELSE "failed"
            /\ visited' = Visit(R)
    /\ events' = events \o parse_events(it.m_current)
    /\ invoked' = IF parse_events(it.m_current) = << >> THEN invoked
                  ELSE invoked
                       \o Calls(handlers, parse_events(it.m_current)[1], Len(events) + 1)
                       \o Calls(handlers, parse_events(it.m_current)[2], Len(events) + 2)
    /\ last_op' = "next"
    /\ prev' = Before(it)
    /\ Given
    /\ UNCHANGED <<handlers, registered>>

\* !has_next(): parse() returns.
ParseReturn ==
    /\ phase = "iterating"
    /\ it.m_ended
    /\ phase' = "returned"
    /\ last_op' = "return"
    /\ UNCHANGED <<it, result, prev, handlers, registered, events, invoked, visited>>
    /\ Given

NextParse == ParseOpen \/ ParseTurn \/ ParseReturn

SpecParse == InitParse /\ [][NextParse]_vars

(***************************************************************************)
(* for_each_chunk(stream, func, options), a turn of its loop at a time.    *)
(* func gets the chunk_info of a data chunk and may read from its reader.  *)
(* The calls of func are logged in events.                                 *)
(***************************************************************************)
\* A faulty variant of the calls below: func is handed the containers too.
for_each_calls_every_chunk(chunk) ==
    <<[type |-> "func", header |-> chunk.header, reader |-> chunk.reader.present,
       current_form |-> chunk.current_form,
       current_container |-> chunk.current_container, depth |-> chunk.depth]>>

\* The calls of one turn of the loop: func(chunk) unless chunk is a container.
for_each_calls(chunk) ==
    IF chunk.header.is_container THEN << >>
    ELSE <<[type |-> "func", header |-> chunk.header,
            reader |-> chunk.reader.present,
            current_form |-> chunk.current_form,
            current_container |-> chunk.current_container, depth |-> chunk.depth]>>

ForEachOpen ==
    /\ phase = "new"
    /\ LET R == get_iterator(start_pos)
       IN /\ it' = Settle(R)
          /\ result' = ResultOf(R)
          /\ phase' = IF R.exc = "none" THEN "for_each" ELSE "failed"
          /\ visited' = Visit(R)
    /\ last_op' = "get_iterator"
    /\ prev' = Before(it)
    /\ Given
    /\ UNCHANGED <<handlers, registered, events, invoked>>

\* has_next(): func is called for a data chunk, next() is called.  An
\* exception of next() ends for_each_chunk().
ForEachTurn ==
    /\ phase = "for_each"
    /\ ~it.m_ended
    /\ Len(events) < MaxEvents
    /\ \E n \in (IF for_each_calls(it.m_current) # << >> THEN Requests(it) ELSE {0}) :
         LET R == advance(Begin(Settle(chunk_reader_read(Begin(it), n))))
         IN /\ it' = Settle(R)
            /\ result' = ResultOf(R)
            /\ phase' = IF R.exc = "none" THEN "for_each" ELSE "failed"
            /\ visited' = Visit(R)
    /\ events' = events \o for_each_calls(it.m_current)
    /\ last_op' = "next"
    /\ prev' = Before(it)
    /\ Given
    /\ UNCHANGED <<handlers, registered, invoked>>

\* !has_next(): for_each_chunk() returns.
ForEachReturn ==
    /\ phase = "for_each"
    /\ it.m_ended
    /\ phase' = "returned"
    /\ last_op' = "return"
    /\ UNCHANGED <<it, result, prev, handlers, registered, events, invoked, visited>>
    /\ Given

\* The two drivers over the same sources and options.
NextForEach ==
    \/ ParseOpen \/ ParseTurn \/ ParseReturn
    \/ ForEachOpen \/ ForEachTurn \/ ForEachReturn

SpecForEach == InitParse /\ [][NextForEach]_vars

(***************************************************************************)
(* The registry on its own: handlers are registered, then events are       *)
(* emitted.                                                                 *)
(***************************************************************************)
MaxHandlers == 3
MaxEmits == 1

FormTypes == {TST1, WAVE}
ChunkIds == {DAT1, FMT}

EmitEvents ==
    {chunk_event("begin",
                 [header |-> [EmptyInfo.header EXCEPT !.id = id],
                  current_form |-> f, current_container |-> c],
                 TRUE) :
        id \in ChunkIds, f \in FormTypes \cup {None}, c \in {LIST, None}}

InitRegistry ==
    /\ Init
    /\ data = Iff85Base
    /\ ~file_like
    /\ m_options = DefaultOptions

\* What a registration leaves alone.
Registering ==
    /\ last_op' = "register"
    /\ UNCHANGED <<it, phase, result, prev, events, invoked, visited>>
    /\ Given

OnChunkInForm ==
    /\ Len(registered) < MaxHandlers
    /\ events = << >>
    /\ \E form_type \in FormTypes, chunk_id \in ChunkIds, at_front \in BOOLEAN :
         /\ handlers' = on_chunk_in_form(handlers, form_type, chunk_id,
                                         Len(registered) + 1, at_front)
         /\ registered' = Append(registered, [table |-> "form", scope |-> form_type,
                                              id |-> chunk_id])
    /\ Registering

OnChunkInContainer ==
    /\ Len(registered) < MaxHandlers
    /\ events = << >>
    /\ \E chunk_id \in ChunkIds, at_front \in BOOLEAN :
         /\ handlers' = on_chunk_in_container(handlers, LIST, chunk_id,
                                              Len(registered) + 1, at_front)
         /\ registered' = Append(registered, [table |-> "container", scope |-> LIST,
                                              id |-> chunk_id])
    /\ Registering

OnChunk ==
    /\ Len(registered) < MaxHandlers
    /\ events = << >>
    /\ \E chunk_id \in ChunkIds, at_front \in BOOLEAN :
         /\ handlers' = on_chunk(handlers, chunk_id, Len(registered) + 1, at_front)
         /\ registered' = Append(registered, [table |-> "global", scope |-> None,
                                              id |-> chunk_id])
    /\ Registering

Emit ==
    /\ Len(events) < MaxEmits
    /\ \E event \in EmitEvents :
         /\ events' = Append(events, event)
         /\ invoked' = invoked \o Calls(handlers, event, Len(events) + 1)
    /\ last_op' = "emit"
    /\ UNCHANGED <<it, phase, result, prev, handlers, registered, visited>>
    /\ Given

NextRegistry == OnChunkInForm \/ OnChunkInContainer \/ OnChunk \/ Emit

SpecRegistry == InitRegistry /\ [][NextRegistry]_vars

\* The caller that uses every method of the reader, with options that leave
\* the nesting depth alone.
InitReader ==
    /\ Init
    /\ m_options.max_depth = DefaultMaxDepth
    /\ m_options.on_warning = ~m_options.strict

NextReader ==
    \/ GetIterator \/ Next_ \/ Read \/ Skip
    \/ ReadString \/ ReadFourcc \/ ReadBytes \/ ReadAll

SpecReader == InitReader /\ [][NextReader]_vars

(***************************************************************************)
(* Properties of the iteration                                             *)
(***************************************************************************)
PaddedEnd(h) == h.file_offset + 8 + h.size + (h.size % 2)

\* The iterator as it was when it exposed the current data chunk: nothing
\* of the payload consumed, the stream just past the header.
AsExposed(I) ==
    [I EXCEPT !.pos = I.m_current.header.file_offset + 8, !.fail = FALSE,
              !.m_current.reader.m_bytes_read = 0,
              !.m_current.reader.sub_position = 0,
              !.headers_at = << >>]

Exposed(R) ==
    [exc |-> R.exc, ended |-> R.m_ended, id |-> R.m_current.header.id,
     size |-> R.m_current.header.size,
     file_offset |-> R.m_current.header.file_offset,
     depth |-> R.m_current.depth]

AtChunk == phase = "iterating" /\ ~it.m_ended
AtData == AtChunk /\ it.m_current.reader.present
Arrived == AtChunk /\ last_op \in {"get_iterator", "next"} /\ result.exc = "none"

\* C1: after a data chunk D, whatever the caller consumed of it, next() either
\* ends the iteration or starts parsing the next header at
\* D.file_offset + 8 + D.size + (D.size mod 2); and what next() exposes does
\* not depend on how much of D the caller consumed.
C1_CursorAfterData ==
    /\ (last_op = "next" /\ prev.had_reader /\ ~prev.ended)
         => \/ it.m_ended
            \/ /\ it.headers_at # << >>
               /\ it.headers_at[1] = PaddedEnd(prev.header)
    /\ AtData => Exposed(advance(Begin(it))) = Exposed(advance(Begin(AsExposed(it))))

\* C2: successive descriptors have strictly increasing header offsets (so no
\* chunk is exposed twice), and the iteration descends by one level only, into
\* the container it has just exposed.
C2_SourceOrder ==
    (last_op = "next" /\ ~prev.ended /\ ~it.m_ended /\ result.exc = "none")
      => /\ it.m_current.header.file_offset > prev.header.file_offset
         /\ it.m_current.depth <= prev.depth + 1
         /\ it.m_current.depth = prev.depth + 1 => prev.header.is_container

\* C3: for the reader of every data chunk, of either variant, whatever reads
\* and skips have been made on it, failed and short ones included,
\* offset() + remaining() = size() (in 64-bit arithmetic) and offset() <= size().
C3_ReaderAccounting ==
    AtData =>
      /\ (reader_offset(it) + reader_remaining(it)) % U64Mod = reader_size(it)
      /\ reader_offset(it) <= reader_size(it)

\* A read_fourcc, read_string or read_bytes that the end of the source cut
\* short after it had consumed a part of the payload.
C3_Witness ==
    /\ AtData
    /\ reader_offset(it) > 0
    /\ reader_remaining(it) > 0
    /\ \/ last_op \in {"read_fourcc", "read_string"} /\ ~result.ret
       \/ last_op \in {"read_bytes", "read_all"} /\ result.got > 0
    /\ it.fail

\* C4: a descriptor the iterator has just exposed carries, for a data chunk, a
\* reader with size() = header.size, offset() = 0 and remaining() = header.size,
\* and for a container no reader.
C4_ReaderOfDescriptor ==
    Arrived =>
      IF it.m_current.header.is_container
      THEN ~it.m_current.reader.present
      ELSE /\ it.m_current.reader.present
           /\ reader_size(it) = it.m_current.header.size
           /\ reader_offset(it) = 0
           /\ reader_remaining(it) = it.m_current.header.size

\* An odd-sized data chunk, a zero-size one and a clamped one are exposed.
C4_Witness ==
    /\ Arrived /\ it.m_current.reader.present
    /\ \/ it.m_current.header.size % 2 = 1
       \/ it.m_current.header.size = 0
       \/ \E i \in 1..Len(it.warnings) :
             /\ it.warnings[i].category = "size_limit"
             /\ it.warnings[i].offset = it.m_current.header.file_offset

\* C5: once the iterator is Ended, next() leaves it Ended, touches the source
\* not at all, raises nothing and leaves current() as it was.
C5_EndedIsTerminal ==
    (last_op = "next" /\ prev.ended)
      => /\ it.m_ended
         /\ result.io = 0
         /\ result.exc = "none"
         /\ it.m_current.header = prev.header
         /\ it.m_current.depth = prev.depth
         /\ ~it.m_current.reader.present

C5_Witness == last_op = "next" /\ prev.ended /\ it.variant = "iff85"

\* C6: get_iterator either raises a parse error or returns an iterator that
\* is at the root container, at depth 0; never an Ended one.
C6_TwoOutcomes ==
    last_op = "get_iterator"
      => \/ result.exc = "parse_error"
         \/ /\ result.exc = "none"
            /\ ~it.m_ended
            /\ it.m_current.header.is_container
            /\ it.m_current.depth = 0
            /\ it.m_current.header.file_offset = start_pos

\* C7: the first four bytes select the variant: FORM, LIST, CAT give the
\* IFF-85 iterator; RIFF, RIFX, RF64, BW64 give the RIFF iterator, whose root
\* descriptor (the one at the start offset) is a container with that id and
\* its type tag; anything else, PROP included, is a parse error.
C7_Dispatch ==
    (last_op = "get_iterator" /\ Len(data) >= start_pos + 4)
      => LET magic == SubSeq(data, start_pos + 1, start_pos + 4)
         IN IF magic \in {FORM, LIST, CAT} THEN it.variant = "iff85"
            ELSE IF magic \in {RIFF, RIFX, RF64, BW64}
            THEN /\ it.variant = "riff"
                 /\ (result.exc = "none" /\ ~it.m_ended
                     /\ it.m_current.header.file_offset = start_pos)
                      => /\ it.m_current.header.is_container
                         /\ it.m_current.header.id = magic
                         /\ it.m_current.header.type
                              = SubSeq(data, start_pos + 9, start_pos + 12)
            ELSE it.variant = "none" /\ result.exc = "parse_error"

(***************************************************************************)
(* Properties of parse() and of the registry                               *)
(***************************************************************************)
\* The data chunks parse() has dealt with: those it found current, but for
\* the one it is at.
Processed ==
    LET found == SelectSeq(visited, LAMBDA h : ~h.is_container)
    IN IF phase = "iterating" /\ ~it.m_ended /\ ~it.m_current.header.is_container
       THEN SubSeq(found, 1, Len(found) - 1)
       ELSE found

\* C8: the events parse() delivers are, for the data chunks in the order of
\* the traversal, a begin event with the reader and then an end event without
\* it; a chunk has one begin event and one end event, and a container none.
C8_EventsPerChunk ==
    /\ Len(events) = 2 * Len(Processed)
    /\ \A k \in 1..Len(Processed) :
         /\ events[2 * k - 1].type = "begin"
         /\ events[2 * k - 1].reader
         /\ events[2 * k - 1].header = Processed[k]
         /\ events[2 * k].type = "end"
         /\ ~events[2 * k].reader
         /\ events[2 * k].header = Processed[k]
    /\ \A i, j \in 1..Len(Processed) :
         i < j => Processed[i].file_offset # Processed[j].file_offset

\* The calls made for the k-th event.
CallsOf(k) == SelectSeq(invoked, LAMBDA c : c.emit = k)

\* C9: for every event, emit calls the handlers whose registration matches
\* it (FORM scope on current_form and id, container scope on
\* current_container and id, global on id), each once, those of FORM scope
\* before those of container scope before the global ones.
C9_EmitMatching ==
    \A k \in 1..Len(events) :
      LET event == events[k]
          Matches(r) ==
              \/ r.table = "form" /\ event.current_form # None
                 /\ r.scope = event.current_form /\ r.id = event.header.id
              \/ r.table = "container" /\ event.current_container # None
                 /\ r.scope = event.current_container /\ r.id = event.header.id
              \/ r.table = "global" /\ r.id = event.header.id
          Tier(h) == CASE registered[h].table = "form" -> 1
                       [] registered[h].table = "container" -> 2
                       [] OTHER -> 3
          calls == CallsOf(k)
          matching == {h \in 1..Len(registered) : Matches(registered[h])}
      IN /\ {calls[i].handler : i \in 1..Len(calls)} = matching
         /\ Len(calls) = Cardinality(matching)
         /\ \A i, j \in 1..Len(calls) :
              i < j => Tier(calls[i].handler) <= Tier(calls[j].handler)

\* An event for which a handler of each scope is called.
C9_Witness ==
    /\ last_op = "emit"
    /\ \E k \in 1..Len(events) :
         {registered[c.handler].table : c \in {CallsOf(k)[i] : i \in 1..Len(CallsOf(k))}}
           = {"form", "container", "global"}

\* C10: handlers registered under the same key in the same table are called
\* in the order in which they were registered.
C10_RegistrationOrder ==
    \A k \in 1..Len(events) :
      \A i, j \in 1..Len(CallsOf(k)) :
        (i < j /\ registered[CallsOf(k)[i].handler] = registered[CallsOf(k)[j].handler])
          => CallsOf(k)[i].handler < CallsOf(k)[j].handler

(***************************************************************************)
(* for_each_chunk and parse() against stepping the iterator by hand        *)
(***************************************************************************)
\* The chunk_infos a caller finds current who gets the iterator and calls
\* next() until it ends or throws, at most n of them, touching no reader.
RECURSIVE ByHand(_, _)
ByHand(R, n) ==
    IF n = 0 \/ R.exc # "none" \/ R.m_ended THEN << >>
    ELSE <<R.m_current>> \o ByHand(advance(Begin(Settle(R))), n - 1)

\* C11: for_each_chunk calls fn once for each data chunk that stepping the
\* iterator by hand over the same source and options finds current, in that
\* order and with the same header, depth and context, and never for a
\* container; it stops where the stepping by hand stops; and the begin events
\* of parse() are for the same sequence of chunks.
C11_ForEachAsByHand ==
    LET walk == ByHand(get_iterator(start_pos), Len(visited) + 1)
        handled == IF phase \in {"iterating", "for_each"} /\ ~it.m_ended
                   THEN Len(visited) - 1 ELSE Len(visited)
        chunks == SelectSeq(SubSeq(walk, 1, handled),
                            LAMBDA c : ~c.header.is_container)
        Same(e, c) == /\ e.header = c.header
                      /\ e.current_form = c.current_form
                      /\ e.current_container = c.current_container
        funcs == SelectSeq(events, LAMBDA e : e.type = "func")
        begins == SelectSeq(events, LAMBDA e : e.type = "begin")
    IN phase # "new" =>
         /\ Len(walk) >= Len(visited)
         /\ \A k \in 1..Len(visited) : walk[k].header = visited[k]
         /\ phase \in {"returned", "failed"} => Len(walk) = Len(visited)
         /\ IF funcs # << >> \/ phase = "for_each"
            THEN /\ Len(events) = Len(chunks)
                 /\ \A k \in 1..Len(chunks) :
                      /\ Same(events[k], chunks[k])
                      /\ events[k].depth = chunks[k].depth
                      /\ ~events[k].header.is_container
            ELSE /\ Len(begins) = Len(chunks)
                 /\ \A k \in 1..Len(chunks) : Same(begins[k], chunks[k])

\* for_each_chunk has returned after it called fn for data chunks at two
\* depths, with containers in between.
C11_Witness ==
    /\ phase = "returned"
    /\ \E i, j \in 1..Len(events) :
         /\ events[i].type = "func" /\ events[j].type = "func"
         /\ events[i].depth # events[j].depth
    /\ Len(visited) > Len(events)

(***************************************************************************)
(* Properties of RF64                                                      *)
(***************************************************************************)
\* The header that lies at offset p of the source: its identifier and its
\* 32-bit size field (little-endian, as in RIFF and RF64).
IdAt(p) == SubSeq(data, p + 1, p + 4)
Field32(p) == Decode(SubSeq(data, p + 5, p + 8), "little")
HeaderAt(p) == Len(data) >= p + 8

Rf64Source == HeaderAt(0) /\ IdAt(0) \in {RF64, BW64}

\* C12: in the iteration of an RF64/BW64 source no descriptor has the
\* identifier ds64; a ds64 chunk whose header the iterator meets, as the first
\* child of the root or later, is passed over exactly (its declared size and
\* pad byte), so that the next header read is that of the chunk which follows
\* it, and the descriptor exposed is the chunk at the last header read.
C12_Ds64Hidden ==
    (Rf64Source /\ last_op \in {"get_iterator", "next"}) =>
      /\ Arrived =>
           /\ it.m_current.header.id # DS64
           /\ it.headers_at # << >>
           /\ it.m_current.header.file_offset = it.headers_at[Len(it.headers_at)]
           /\ it.m_current.header.id = IdAt(it.m_current.header.file_offset)
      /\ \A i \in 1..Len(it.headers_at) :
           LET p == it.headers_at[i]
           IN (HeaderAt(p) /\ IdAt(p) = DS64) =>
                \/ i = Len(it.headers_at) /\ (result.exc # "none" \/ it.m_ended)
                \/ /\ i < Len(it.headers_at)
                   /\ it.headers_at[i + 1] = p + 8 + Padded(Field32(p))

\* A ds64 chunk that is not the first child has been passed over: the chunk
\* before it was exposed, and now the chunk after it is.
C12_Witness ==
    /\ Rf64Source /\ Arrived /\ last_op = "next"
    /\ ~prev.header.is_container
    /\ Len(it.headers_at) = 2
    /\ IdAt(it.headers_at[1]) = DS64
    /\ Field32(it.headers_at[1]) % 2 = 1

\* The ds64 chunk among the chunks that follow one another from offset p,
\* or -1; and the table it carries (count at byte 24 of its payload, entries
\* of 12 bytes from byte 28).
RECURSIVE Ds64From(_)
Ds64From(p) ==
    IF ~HeaderAt(p) THEN -1
    ELSE IF IdAt(p) = DS64 THEN p
    ELSE Ds64From(p + 8 + Padded(Field32(p)))

TableCountAt(p) == Decode(SubSeq(data, p + 33, p + 36), "little")

TableAt(p) ==
    [i \in 1..TableCountAt(p) |->
        [id |-> SubSeq(data, p + 12 * i + 25, p + 12 * i + 28),
         size |-> Decode(SubSeq(data, p + 12 * i + 29, p + 12 * i + 36), "little")]]

\* The source is an RF64 file with a ds64 chunk that is all there.
Rf64WithTable ==
    /\ HeaderAt(0) /\ IdAt(0) = RF64
    /\ Ds64From(12) # -1
    /\ LET p == Ds64From(12)
       IN /\ Len(data) >= p + 36
          /\ Field32(p) >= 28 + 12 * TableCountAt(p)
          /\ Len(data) >= p + 36 + 12 * TableCountAt(p)

\* The chunk visited[j] is the k-th of its identifier with the sentinel in
\* its size field, among the chunks behind ds64 found current so far.
SentinelAt(q) == q > Ds64From(12) /\ HeaderAt(q) /\ Field32(q) = U32Max
SentinelRank(j) ==
    Cardinality({visited[i].file_offset : i \in
                    {i \in 1..j : /\ visited[i].id = visited[j].id
                                  /\ SentinelAt(visited[i].file_offset)}})

\* The size the chunk visited[j] gets from the table of ds64.
FromTable(j) ==
    LET entries == OverridesOf(TableAt(Ds64From(12)), visited[j].id)
    IN IF ~SentinelAt(visited[j].file_offset) THEN Field32(visited[j].file_offset)
       ELSE IF SentinelRank(j) <= Len(entries) THEN entries[SentinelRank(j)].size
       ELSE U32Max

\* C13: in RF64, for every identifier X other than the root identifier and
\* data, the k-th chunk with identifier X and the sentinel in its size field
\* is exposed with the k-th table entry for X as its size; a chunk with an
\* ordinary size keeps it and consumes no entry; when no entry for X is left
\* the size stays 0xFFFFFFFF.  (Sizes over max_chunk_size are left aside.)
C13_OverrideFifo ==
    Rf64WithTable =>
      \A j \in 1..Len(visited) :
        (/\ visited[j].id \notin {RF64, DATA}
         /\ visited[j].file_offset > Ds64From(12)
         /\ FromTable(j) <= m_options.max_chunk_size)
          => visited[j].size = FromTable(j)

\* The DataSize field of the ds64 chunk at p (bytes 8 to 15 of its payload).
DataSizeAt(p) == Decode(SubSeq(data, p + 17, p + 24), "little")

\* C14: in RF64, a data chunk with the sentinel in its size field is exposed
\* with DataSize as its size when the DataSize field of ds64 is not zero, and
\* with the next unconsumed table entry for data when it is zero: the k-th
\* such chunk gets the k-th entry.  (Sizes over max_chunk_size are left aside.)
C14_DataSize ==
    Rf64WithTable =>
      \A j \in 1..Len(visited) :
        LET size_64 == IF DataSizeAt(Ds64From(12)) # 0
                       THEN DataSizeAt(Ds64From(12)) ELSE FromTable(j)
        IN (/\ visited[j].id = DATA
            /\ SentinelAt(visited[j].file_offset)
            /\ size_64 <= m_options.max_chunk_size)
             => visited[j].size = size_64

\* The RiffSize field of the ds64 chunk at p (bytes 0 to 7 of its payload).
RiffSizeAt(p) == Decode(SubSeq(data, p + 9, p + 16), "little")

\* An RF64 root with the sentinel in its size field and ds64 as first child.
SentinelRoot == Rf64WithTable /\ Field32(0) = U32Max /\ Ds64From(12) = 12

\* C15: the descriptor of an RF64/BW64 root whose size field is 0xFFFFFFFF
\* has header.size equal to the RiffSize of ds64, and once ds64 has been read
\* the root frame ends at root offset + 8 + RiffSize.  (A RiffSize over
\* max_chunk_size is left aside.)
C15_RootSize ==
    (SentinelRoot /\ RiffSizeAt(12) <= m_options.max_chunk_size) =>
      /\ (last_op = "get_iterator" /\ Arrived)
           => it.m_current.header.size = RiffSizeAt(12)
      /\ (/\ last_op = "next" /\ result.exc = "none"
          /\ prev.header.is_container /\ prev.header.file_offset = 0
          /\ it.m_container_stack # << >>)
           => it.m_container_stack[1].end_offset = 8 + RiffSizeAt(12)

\* The ds64 chunk at p declares less than its fixed fields, or a table that
\* does not fit into its declared size (in exact integers).
Ds64Invalid(p) ==
    \/ Field32(p) < 24
    \/ /\ Field32(p) >= 28
       /\ Len(data) >= p + 36
       /\ 28 + 12 * TableCountAt(p) > Field32(p)

\* C16: a ds64 chunk with declared size S and table count N, where S < 24 or
\* S >= 28 and 28 + 12 * N > S, makes the step that meets it raise a parse
\* error, and no table entry is stored; so the entries stored for one ds64
\* are at most (S - 28) / 12.
C16_Ds64Validation ==
    /\ (it.m_is_rf64 /\ last_op \in {"get_iterator", "next"}) =>
         \A i \in 1..Len(it.headers_at) :
            LET p == it.headers_at[i]
            IN (HeaderAt(p) /\ IdAt(p) = DS64 /\ Ds64Invalid(p))
                 => /\ result.exc = "parse_error"
                    /\ it.m_rf64_state.override_table = << >>
    /\ (phase = "iterating" /\ Ds64From(12) # -1) =>
         28 + 12 * Len(it.m_rf64_state.override_table)
           <= (IF Field32(Ds64From(12)) < 28 THEN 28 ELSE Field32(Ds64From(12)))

\* C17: when the root identifier is RF64 or BW64, its size field is
\* 0xFFFFFFFF and the first chunk inside the root is not ds64, the iteration
\* raises a parse error: get_iterator does, or the step from the root to its
\* first child.
C17_MissingDs64 ==
    (/\ Rf64Source /\ Field32(0) = U32Max
     /\ HeaderAt(12) /\ IdAt(12) # DS64
     /\ last_op = "next" /\ prev.header.file_offset = 0 /\ prev.header.is_container)
      => result.exc = "parse_error"

(***************************************************************************)
(* Properties of the options                                               *)
(***************************************************************************)
\* C18: with allow_rf64 false, get_iterator on a source whose root identifier
\* is RF64 or BW64 raises a parse error and exposes no descriptor; with
\* allow_rf64 true (and the other options at their defaults) the same source,
\* its root header complete, is parsed: the root is exposed.
C18_AllowRf64 ==
    (Rf64Source /\ last_op = "get_iterator") =>
      /\ ~m_options.allow_rf64 => (result.exc = "parse_error" /\ phase = "failed")
      /\ (m_options = DefaultOptions /\ Len(data) >= 12 /\ Field32(0) >= 4)
           => (result.exc = "none" /\ Arrived)

\* The size field of the header at p, in the byte order of the format, and
\* the headers the limits apply to: the hidden ds64 of an RF64 source and
\* the RF64 sentinel (replaced before the limit is looked at) aside.
BigEndianSource == IdAt(start_pos) \in {FORM, LIST, CAT, RIFX}
SizeAt(p) ==
    Decode(SubSeq(data, p + 5, p + 8), IF BigEndianSource THEN "big" ELSE "little")
Overridden(p) == IdAt(start_pos) = RF64 /\ HeaderAt(p) /\ SizeAt(p) = U32Max
Oversize(p) ==
    /\ HeaderAt(p)
    /\ ~Overridden(p) /\ ~(IdAt(start_pos) = RF64 /\ IdAt(p) = DS64)
    /\ SizeAt(p) > m_options.max_chunk_size
LastHeader == it.headers_at[Len(it.headers_at)]

\* C19: in strict mode a step (construction or advance) whose last header
\* read declares a size above max_chunk_size raises a parse error, and so
\* does a step that stops at a container header at nesting depth >=
\* max_depth; no descriptor over either limit is exposed, and on_warning is
\* not invoked, whether or not a callback is set.
C19_StrictLimits ==
    (m_options.strict /\ last_op \in {"get_iterator", "next"}) =>
      /\ it.warnings = << >>
      /\ Arrived =>
           /\ it.m_current.header.size <= m_options.max_chunk_size
           /\ it.m_current.header.is_container
                => it.m_current.depth < m_options.max_depth
      /\ (it.headers_at # << >> /\ Oversize(LastHeader))
           => result.exc = "parse_error"
      /\ (/\ it.headers_at # << >> /\ HeaderAt(LastHeader) /\ ~Oversize(LastHeader)
          /\ it.m_current.header.file_offset = LastHeader
          /\ it.m_current.header.is_container
          /\ it.m_current.depth >= m_options.max_depth)
           => result.exc = "parse_error"

C19_Witness ==
    /\ m_options.strict /\ m_options.on_warning
    /\ last_op = "next" /\ phase = "iterating"
    /\ it.headers_at # << >> /\ Oversize(LastHeader)
    /\ result.exc = "parse_error"
    /\ it.warnings = << >>

\* The warnings on_warning got for the header at p, by category.
WarningsAt(p, category) ==
    {i \in 1..Len(it.warnings) :
        it.warnings[i] = [offset |-> p, category |-> category]}

\* C20: in lenient mode a step whose last header read declares more than
\* max_chunk_size raises nothing and exposes that chunk (a container needs
\* its type tag and a depth within max_depth) with header.size, and the size
\* of its reader, equal to max_chunk_size; the iteration goes on from the end
\* of the clamped chunk; on_warning, when set, has been called exactly once
\* with size_limit and the header offset of each oversize chunk read, and for
\* no other offset (a size that ds64 overrides aside).  In either mode an exposed descriptor has
\* header.size <= max_chunk_size.
C20_LenientClamp ==
    /\ Arrived => it.m_current.header.size <= m_options.max_chunk_size
    /\ (~m_options.strict /\ last_op \in {"get_iterator", "next"}) =>
         /\ (/\ it.headers_at # << >> /\ Oversize(LastHeader)
             /\ \/ IdAt(LastHeader) \notin {FORM, LIST, CAT, PROP, RIFF, RIFX, RF64}
                \/ /\ Len(data) >= LastHeader + 12
                   /\ m_options.max_depth = DefaultMaxDepth)
              => /\ Arrived
                 /\ it.m_current.header.file_offset = LastHeader
                 /\ it.m_current.header.size = m_options.max_chunk_size
                 /\ it.m_current.reader.present
                      => it.m_current.reader.m_size = m_options.max_chunk_size
         /\ \A i \in 1..Len(it.headers_at) :
              Oversize(it.headers_at[i]) =>
                Cardinality(WarningsAt(it.headers_at[i], "size_limit"))
                  = IF m_options.on_warning THEN 1 ELSE 0
         /\ \A i \in 1..Len(it.warnings) :
              it.warnings[i].category = "size_limit"
                => (Oversize(it.warnings[i].offset) \/ Overridden(it.warnings[i].offset))
         /\ (/\ last_op = "next" /\ prev.had_reader /\ ~prev.ended
             /\ Oversize(prev.header.file_offset))
              => \/ it.m_ended
                 \/ /\ it.headers_at # << >>
                    /\ it.headers_at[1] = prev.header.file_offset + 8
                                            + Padded(m_options.max_chunk_size)

C20_Witness ==
    /\ ~m_options.strict /\ m_options.on_warning
    /\ Arrived /\ last_op = "next"
    /\ Oversize(LastHeader)
    /\ it.m_current.header.file_offset = LastHeader
    /\ it.m_current.reader.present
    /\ it.m_current.reader.m_size = m_options.max_chunk_size
    /\ Cardinality(WarningsAt(LastHeader, "size_limit")) = 1

(***************************************************************************)
(* Properties of the container stack                                       *)
(***************************************************************************)
\* The frames left when a header is read at p in the step that started with
\* the stack prev.stack, the depth a chunk gets there, and the size the
\* iterator takes from the header at p.
ContainerAt(p) ==
    /\ HeaderAt(p)
    /\ IdAt(p) \in (IF it.variant = "iff85" THEN {FORM, LIST, CAT, PROP}
                    ELSE {RIFF, RIFX, RF64, LIST})
StackAt(p) == PopClosed(prev.stack, p)
DepthAt(p) == IF StackAt(p) = << >> THEN 0 ELSE Top(StackAt(p)).depth + 1
SizeTaken(p) == Min(SizeAt(p), m_options.max_chunk_size)
TooDeep(p) == ContainerAt(p) /\ DepthAt(p) >= m_options.max_depth

C22_StackBound ==
    /\ Len(it.m_container_stack) <= m_options.max_depth
    /\ (AtChunk /\ (last_op \in {"get_iterator", "next"} => result.exc = "none")) =>
         /\ it.m_current.depth <= m_options.max_depth
         /\ it.m_current.header.is_container
              => it.m_current.depth < m_options.max_depth

C22_Witness ==
    /\ Arrived /\ ~it.m_current.header.is_container
    /\ it.m_current.depth = m_options.max_depth
    /\ Len(it.m_container_stack) = m_options.max_depth
    /\ m_options.max_depth = 1

\* Where the root container ends: header offset + 8 + the size taken from its
\* header (an RF64 root's size comes from ds64 and the length of the source).
RootEnd ==
    IF Overridden(start_pos) THEN Len(data)
    ELSE start_pos + 8 + SizeTaken(start_pos)
RootEntered == phase = "iterating" /\ m_options.max_depth > 0

\* C23: once the root has been entered, a descriptor is exposed only with a
\* non-empty stack, with depth >= 1 unless it is the root, and with its
\* header before the root's end; the advance that pops the last frame ends
\* the iteration.
C23_RootCloses ==
    /\ (RootEntered /\ AtChunk
          /\ (last_op \in {"get_iterator", "next"} => result.exc = "none")) =>
         /\ it.m_container_stack # << >>
         /\ it.m_current.header.file_offset > start_pos => it.m_current.depth >= 1
         /\ it.m_current.header.file_offset < RootEnd
    /\ (RootEntered /\ last_op = "next" /\ result.exc = "none"
          /\ prev.stack # << >> /\ it.m_container_stack = << >>) => it.m_ended

(***************************************************************************)
(* Properties of the end of the source                                     *)
(***************************************************************************)
\* The header an advance starts at, complete in the source: eight bytes, and
\* the type tag of a container (CAT has none).
Cursor == it.headers_at[1]
CompleteAt(p) ==
    /\ HeaderAt(p)
    /\ (ContainerAt(p) /\ ~(it.variant = "iff85" /\ IdAt(p) = CAT))
         => Len(data) >= p + 12

\* C24: an advance that finds the source ending at the cursor, or less than
\* eight bytes behind it, ends the iteration and raises nothing, in both
\* formats and both modes, whatever the depth; an advance that finds a
\* complete header at the cursor (limits at their defaults, ds64 aside)
\* exposes the chunk at the cursor.
C24_EndOfSource ==
    (last_op = "next" /\ ~prev.ended /\ it.headers_at # << >>) =>
      /\ (Cursor <= Len(data) /\ Len(data) < Cursor + 8)
           => (it.m_ended /\ result.exc = "none")
      /\ (/\ CompleteAt(Cursor)
          /\ ~(it.m_is_rf64 /\ IdAt(Cursor) = DS64)
          /\ m_options.max_chunk_size >= DefaultMaxChunkSize
          /\ m_options.max_depth = DefaultMaxDepth)
           => (Arrived /\ it.m_current.header.file_offset = Cursor)

(***************************************************************************)
(* Properties of the stream                                                *)
(***************************************************************************)
\* C25: once get_iterator has returned, no operation of the iterator or of
\* a chunk reader puts the stream at a position before the one it is at;
\* reads go on from where the stream is.
C25_ForwardOnly ==
    last_op \in {"next", "read", "skip"} => ~it.backward

(***************************************************************************)
(* Properties of PROP                                                      *)
(***************************************************************************)
\* A descriptor a step handed out, and a root LIST whose first child is PROP.
Handed ==
    AtChunk /\ (last_op \in {"get_iterator", "next"} => result.exc = "none")
ListWithProp ==
    /\ Len(data) >= start_pos + 20
    /\ IdAt(start_pos) = LIST /\ IdAt(start_pos + 12) = PROP

\* C26: in IFF-85 iteration is_prop_chunk is set on the descriptor of a PROP
\* chunk and on no other; in a LIST with a PROP, in_list_with_props is set on
\* what is exposed behind the PROP up to the end of the LIST; in a LIST
\* without PROP both flags are clear.
C26_PropFlags ==
    (Handed /\ it.variant = "iff85") =>
      /\ it.m_current.is_prop_chunk <=> (it.m_current.header.id = PROP)
      /\ (/\ ListWithProp
          /\ it.m_current.header.file_offset
               >= start_pos + 20 + Padded(SizeAt(start_pos + 12))
          /\ it.m_current.header.file_offset < start_pos + 8 + SizeAt(start_pos))
           => it.m_current.in_list_with_props
      /\ (IdAt(start_pos) = LIST /\ ~ListWithProp)
           => (~it.m_current.in_list_with_props /\ ~it.m_current.is_prop_chunk)

(***************************************************************************)
(* Properties of the chunk readers                                         *)
(***************************************************************************)
\* C27: on the reader of a data chunk, whatever has been done with it,
\* skip(n) with n <= remaining() returns true and moves offset() by n;
\* skip(n) with n > remaining() returns false and leaves offset() and
\* remaining() as they were.
C27_Skip ==
    AtData =>
      \A n \in Requests(it) \cup {reader_remaining(it) + 1} :
        LET R == chunk_reader_skip(Begin(it), n)
        IN IF n <= reader_remaining(it)
           THEN /\ R.ret /\ R.exc = "none"
                /\ reader_offset(R) = reader_offset(it) + n
           ELSE /\ ~R.ret /\ R.exc = "none"
                /\ reader_offset(R) = reader_offset(it)
                /\ reader_remaining(R) = reader_remaining(it)

\* skip(1) on a zero-size chunk, and a skip of all that a partial read left.
C27_Witness ==
    /\ AtData /\ last_op = "skip"
    /\ \/ reader_size(it) = 0 /\ ~result.ret
       \/ /\ reader_size(it) > 1 /\ result.ret
          /\ reader_remaining(it) = 0 /\ it.variant = "iff85"

\* The bytes of the current chunk's payload, from offset() on, that the
\* source holds (negative once offset() is past the end of the source).
PayloadLeft(I) ==
    Len(data) - (I.m_current.reader.m_start_offset + reader_offset(I))

\* C28 as stated: a read of n >= 1 bytes through a chunk reader returns 0
\* exactly when remaining() is 0 at entry; otherwise it returns between 1 and
\* min(n, remaining()) bytes and offset() advances by the count returned.
C28_Read ==
    AtData =>
      \A n \in Requests(it) \ {0} :
        LET R == chunk_reader_read(Begin(it), n)
        IN /\ R.exc = "none"
           /\ (R.got = 0) <=> (reader_remaining(it) = 0)
           /\ R.got <= Min(n, reader_remaining(it))
           /\ reader_offset(R) = reader_offset(it) + R.got

\* C28, amended: a read of n >= 1 bytes returns 0 when remaining() is 0 at
\* entry; when remaining() is positive and the source still holds payload of
\* the chunk at offset(), it returns at least 1; it never returns more than
\* min(n, remaining()) and offset() advances by the count returned.  Where
\* the source ends inside the payload a read returns 0, or fails, with
\* remaining() positive.
C28_ReadWithinSource ==
    AtData =>
      \A n \in Requests(it) \ {0} :
        LET R == chunk_reader_read(Begin(it), n)
        IN /\ reader_offset(R) = reader_offset(it) + R.got
           /\ R.got <= Min(n, reader_remaining(it))
           /\ reader_remaining(it) = 0 => R.got = 0 /\ R.exc = "none"
           /\ (reader_remaining(it) > 0 /\ PayloadLeft(it) > 0) =>
                 R.got >= 1 /\ R.exc = "none"
           /\ (reader_remaining(it) > 0 /\ PayloadLeft(it) <= 0) => R.got = 0

\* A read has taken the last byte the source holds of a longer payload.
C28_Witness ==
    /\ AtData /\ last_op = "read"
    /\ result.got >= 1 /\ result.exc = "none"
    /\ reader_remaining(it) > 0 /\ PayloadLeft(it) = 0

(***************************************************************************)
(* Properties of the frames of the container stack.                        *)
(***************************************************************************)
\* The stack as the i-th header read of the step finds it, before the frames
\* that end at or before its cursor are popped: no frame is pushed between
\* the header reads of one step.
RECURSIVE StackBefore(_)
StackBefore(i) ==
    IF i = 1 THEN prev.stack
    ELSE PopClosed(StackBefore(i - 1), it.headers_at[i - 1])

\* The frames the i-th header read of the step pops.
PoppedAt(i) ==
    LET S == StackBefore(i)
    IN {S[k] : k \in (Len(PopClosed(S, it.headers_at[i])) + 1)..Len(S)}

\* C29: a container frame popped while the cursor is short of the
\* end of the source is popped with the cursor at its end offset.
C29_PopAtEnd ==
    (last_op = "next" /\ ~prev.ended) =>
      \A i \in 1..Len(it.headers_at) :
        it.headers_at[i] < Len(data) =>
          \A f \in PoppedAt(i) : f.end_offset = it.headers_at[i]

\* C30: while a chunk is exposed, every frame of the container stack, the
\* innermost and the outer ones, ends behind the header of that chunk.
C30_FramesEnclose ==
    AtChunk =>
      \A k \in 1..Len(it.m_container_stack) :
        it.m_container_stack[k].end_offset > it.m_current.header.file_offset

(***************************************************************************)
(* Properties of the context of a chunk.                                   *)
(***************************************************************************)
\* The frames of the stack with an identifier among ids, and the innermost
\* of them.
FramesOf(ids) ==
    {k \in 1..Len(it.m_container_stack) : it.m_container_stack[k].id \in ids}
Innermost(ids) ==
    it.m_container_stack[CHOOSE k \in FramesOf(ids) : \A j \in FramesOf(ids) : j <= k]
FormIds == IF it.variant = "iff85" THEN {FORM} ELSE {RIFF, RIFX, RF64}

\* C31: a data chunk reports as current_form the type tag of the innermost
\* FORM frame (RIFF, RIFX or RF64 frame in RIFF) of the stack and nothing
\* when there is none, and as current_container the identifier of the
\* innermost LIST, CAT or PROP frame and nothing when there is none; a chunk
\* behind a closed container reports what is left on the stack.
C31_Context ==
    (AtData /\ (last_op \in {"get_iterator", "next"} => result.exc = "none")) =>
      /\ it.m_current.current_form =
           (IF FramesOf(FormIds) = {} THEN None ELSE Innermost(FormIds).type)
      /\ it.m_current.current_container =
           (IF FramesOf({LIST, CAT, PROP}) = {} THEN None
            ELSE Innermost({LIST, CAT, PROP}).id)

\* A data chunk behind a closed LIST, CAT or PROP, inside a FORM or RIFF.
C31_Witness ==
    /\ AtData /\ last_op = "next" /\ result.exc = "none"
    /\ Len(it.headers_at) = 1
    /\ \E f \in PoppedAt(1) : f.id \in {LIST, CAT, PROP}
    /\ it.m_current.current_form # None
    /\ it.m_current.current_container = None

(***************************************************************************)
(* Properties of the type tag.                                             *)
(***************************************************************************)
\* The step before exposed a container and pushed its frame.
Entered ==
    /\ prev.header.is_container /\ ~prev.ended /\ ~prev.raised
    /\ prev.stack # << >>
    /\ Top(prev.stack).id = prev.header.id
    /\ Top(prev.stack).depth = prev.depth

\* C32: in IFF-85 a CAT is exposed without a type tag and the advance from it
\* reads the next header at its offset + 8; FORM, LIST and PROP are exposed
\* with the 4 bytes after their header as type tag and the advance from them
\* reads the next header at offset + 12, behind the type tag.
C32_TypeTag ==
    it.variant = "iff85" =>
      /\ (Arrived /\ it.m_current.header.is_container) =>
           LET h == it.m_current.header
           IN /\ h.id \in {FORM, LIST, CAT, PROP}
              /\ h.id = CAT => h.type = None
              /\ h.id # CAT => h.type = SubSeq(data, h.file_offset + 9, h.file_offset + 12)
      /\ (last_op = "next" /\ Entered) =>
           /\ it.headers_at # << >>
           /\ Cursor = prev.header.file_offset + (IF prev.header.id = CAT THEN 8 ELSE 12)

\* The first child of a CAT and the first child of a FORM have been exposed.
C32_Witness ==
    /\ it.variant = "iff85" /\ last_op = "next" /\ Entered /\ AtChunk
    /\ result.exc = "none" /\ it.m_current.header.file_offset = Cursor
    /\ prev.header.id = CAT /\ prev.header.file_offset > 0
    /\ Len(prev.stack) = 2 /\ prev.stack[1].id \in {FORM, LIST}

(***************************************************************************)
(* Properties of the reader within its container.                          *)
(***************************************************************************)
\* C33: the bytes a read through the reader of a data chunk returns lie
\* before the end offset of the container that encloses the chunk, whatever
\* size the chunk declares.
C33_ReaderWithinContainer ==
    (AtData /\ it.m_container_stack # << >>) =>
      \A n \in Requests(it) :
        LET R == chunk_reader_read(Begin(it), n)
        IN R.got > 0 =>
             it.m_current.reader.m_start_offset + reader_offset(it) + R.got
               <= Top(it.m_container_stack).end_offset

(***************************************************************************)
(* Properties of a read that fails.                                        *)
(***************************************************************************)
\* The stream fails under a read of the current chunk: the seek to the
\* payload at offset() is refused.
SourceFails(I) ==
    /\ reader_remaining(I) > 0
    /\ reader_seek(I, (I.m_current.reader.m_start_offset + reader_offset(I)) % U64Mod).exc
         # "none"

\* C34 as stated: a read that asks for more than remaining() returns a
\* clamped count, 0 when the chunk is exhausted, and raises nothing; a read
\* under which the stream fails raises an I/O error, in IFF-85 as in RIFF.
C34_ReadErrors ==
    AtData =>
      \A n \in Requests(it) \ {0} :
        LET R == chunk_reader_read(Begin(it), n)
        IN IF SourceFails(it) THEN R.exc = "io_error"
           ELSE /\ R.exc = "none"
                /\ R.got <= Min(n, reader_remaining(it))
                /\ reader_remaining(it) = 0 => R.got = 0

\* C34, amended: a read that asks for more than remaining() returns a clamped
\* count, 0 when the chunk is exhausted, and raises nothing; a read under
\* which the stream fails raises an I/O error through the RIFF reader and
\* returns 0, offset() unchanged, through the IFF-85 reader.
C34_ReadErrorsByFormat ==
    AtData =>
      \A n \in Requests(it) \ {0} :
        LET R == chunk_reader_read(Begin(it), n)
        IN IF SourceFails(it)
           THEN /\ R.exc = (IF it.variant = "riff" THEN "io_error" ELSE "none")
                /\ R.got = 0 /\ reader_offset(R) = reader_offset(it)
           ELSE /\ R.exc = "none"
                /\ R.got <= Min(n, reader_remaining(it))
                /\ reader_remaining(it) = 0 => R.got = 0

\* A read through the RIFF reader has raised an I/O error, the chunk not
\* exhausted.
C34_Witness ==
    /\ AtData /\ last_op = "read" /\ result.exc = "io_error"
    /\ it.variant = "riff" /\ SourceFails(it)

(***************************************************************************)
(* Properties of the start offset.                                         *)
(***************************************************************************)
\* C35: get_iterator on a stream positioned at start_pos reads the root
\* header there; the descriptor it exposes from that header has file_offset =
\* start_pos and its frame ends at start_pos + 8 + its size, in RIFF as in
\* IFF-85.
C35_StartOffset ==
    (last_op = "get_iterator" /\ it.variant # "none" /\ it.headers_at # << >>) =>
      /\ it.headers_at[1] = start_pos
      /\ (result.exc = "none" /\ ~it.m_ended /\ Len(it.headers_at) = 1) =>
           /\ it.m_current.header.file_offset = start_pos
           /\ (it.m_container_stack # << >> /\ ~Overridden(start_pos)) =>
                it.m_container_stack[1].end_offset
                  = start_pos + 8 + it.m_current.header.size

(***************************************************************************)
(* Properties of the depth.                                                *)
(***************************************************************************)
\* The frames on the stack when the last header of the step was read.
FramesAtHeader == PopClosed(StackBefore(Len(it.headers_at)), LastHeader)

\* C36: the frames of the stack have the depths 0, 1, 2, ... from the bottom;
\* a descriptor just exposed has as depth the number of frames that were on
\* the stack when its header was read, and a container's own frame, pushed
\* on top of them, has the container's depth.
C36_Depth ==
    /\ \A k \in 1..Len(it.m_container_stack) : it.m_container_stack[k].depth = k - 1
    /\ Arrived =>
         /\ it.headers_at # << >>
         /\ it.m_current.depth = Len(FramesAtHeader)
         /\ it.m_current.depth
              = Len(it.m_container_stack)
                  - (IF it.m_current.header.is_container THEN 1 ELSE 0)

\* An advance from a chunk three containers deep has popped one frame and
\* exposed a chunk one level up.
C36_Witness ==
    /\ Arrived /\ last_op = "next" /\ Len(prev.stack) = 3 /\ prev.depth = 3
    /\ it.m_current.depth = 2 /\ Len(it.m_container_stack) = 2

(***************************************************************************)
(* Properties of an advance that raises.                                   *)
(***************************************************************************)
\* C37: after a next() that raised a parse error the iterator is not ended,
\* the descriptor has no reader, the stream is behind the 8-byte header that
\* was refused, and a further next() reads its first header where the stream
\* is.
C37_ResumeAfterError ==
    (last_op = "next" /\ result.exc = "parse_error") =>
      /\ ~it.m_ended
      /\ ~it.m_current.reader.present
      /\ it.headers_at # << >> /\ it.pos >= LastHeader + 8
      /\ LET R == advance(Begin(it))
         IN R.headers_at # << >> /\ R.headers_at[1] = it.pos

(***************************************************************************)
(* Properties of the progress of the iteration                             *)
(***************************************************************************)
\* The header reads of the step that found no whole header.
FailedReads == {i \in 1..Len(it.headers_at) : ~HeaderAt(it.headers_at[i])}

\* Calling next() on I again and again gets to the end, or to a call that
\* raises, in n calls at most.
RECURSIVE EndsWithin(_, _)
EndsWithin(I, n) ==
    \/ I.m_ended
    \/ /\ n > 0
       /\ With(advance(Begin(I)), LAMBDA R :
              R.exc # "none" \/ EndsWithin(Settle(R), n - 1))

\* The headers a source has room for.
Room == Len(data) \div 8

\* C38: with max_chunk_size within 2^32, calling next() again and again
\* reaches the end or raises within as many calls as the source has room for
\* headers, plus one; the header reads of a next() are at strictly increasing
\* offsets, the first of them behind the header of the chunk the iterator was
\* at; a next() that raises nothing and does not end exposes a chunk that
\* lies in the source, behind the one the iterator was at; and the header
\* reads of a next() that found no whole header are no more than the frames
\* the stack had, plus one.
C38_Progress ==
    (phase = "iterating" /\ m_options.max_chunk_size <= U32Mod) =>
      /\ EndsWithin(it, Room + 1)
      /\ (last_op = "next" /\ ~prev.ended) =>
           /\ \A i \in 1..Len(it.headers_at) :
                /\ it.headers_at[i] > prev.header.file_offset
                /\ i > 1 => it.headers_at[i] > it.headers_at[i - 1]
           /\ Arrived =>
                /\ it.m_current.header.file_offset > prev.header.file_offset
                /\ HeaderAt(it.m_current.header.file_offset)
           /\ Cardinality(FailedReads) <= Len(prev.stack) + 1

C38_Witness ==
    /\ phase = "iterating" /\ m_options.max_chunk_size <= U32Mod
    /\ last_op = "next" /\ ~prev.ended /\ Arrived
    /\ prev.had_reader /\ prev.header.size = 0
    /\ Len(it.headers_at) > 1 /\ TooDeep(it.headers_at[1])

(***************************************************************************)
(* Properties of the extent of a clamped chunk                             *)
(***************************************************************************)
\* C39: in lenient mode the next() that leaves a data chunk whose declared
\* size was clamped reads its first header at header offset + 8 +
\* max_chunk_size, one more when max_chunk_size is odd, which is not behind
\* the end the header declared; and the frame of a container whose declared
\* size was clamped ends at header offset + 8 + max_chunk_size.
C39_ClampedExtent ==
    ~m_options.strict =>
      /\ (/\ last_op = "next" /\ prev.had_reader /\ ~prev.ended
          /\ Oversize(prev.header.file_offset) /\ it.headers_at # << >>)
           => /\ Cursor = prev.header.file_offset + 8
                            + Padded(m_options.max_chunk_size)
              /\ Cursor <= prev.header.file_offset + 8
                             + SizeAt(prev.header.file_offset)
      /\ (/\ Arrived /\ it.m_current.header.is_container
          /\ Oversize(it.m_current.header.file_offset))
           => /\ it.m_container_stack # << >>
              /\ Top(it.m_container_stack).end_offset
                   = it.m_current.header.file_offset + 8
                       + m_options.max_chunk_size

C39_Witness ==
    /\ ~m_options.strict /\ last_op = "next"
    /\ prev.had_reader /\ Oversize(prev.header.file_offset)
    /\ it.headers_at # << >>
    /\ Cursor < prev.header.file_offset + 8 + SizeAt(prev.header.file_offset)
    /\ Oversize(0) /\ prev.stack # << >>
    /\ prev.stack[1].end_offset = 8 + m_options.max_chunk_size

=============================================================================
